---- MODULE Spec2Model ----
(***************************************************************************)
(* Talk2Trade: the POST /api/translate pipeline of server/routes.ts        *)
(* (normalize, detect, translate, post-process, extract, catalog write)    *)
(* and the in-memory product store of server/storage.ts.                   *)
(*                                                                         *)
(* Texts are TLA+ strings; a JavaScript string of UTF-16 code units is the *)
(* same sequence of characters here.  The regular expressions of the       *)
(* source are evaluated by the matchers below, character by character.     *)
(***************************************************************************)
EXTENDS Integers, Sequences, FiniteSets, TLC

(***************************************************************************)
(* Characters and case                                                     *)
(***************************************************************************)
UpperChars == "ABCDEFGHIJKLMNOPQRSTUVWXYZ"
LowerChars == "abcdefghijklmnopqrstuvwxyz"
DigitChars == "0123456789"

CharAt(s, i) == SubSeq(s, i, i)

CharSet(chars) == { CharAt(chars, k) : k \in 1..Len(chars) }

UpperSet == CharSet(UpperChars)
LowerSet == CharSet(LowerChars)
DigitSet == CharSet(DigitChars)

LowerOf == [c \in UpperSet |-> CharAt(LowerChars, CHOOSE k \in 1..26 : CharAt(UpperChars, k) = c)]
UpperOf == [c \in LowerSet |-> CharAt(UpperChars, CHOOSE k \in 1..26 : CharAt(LowerChars, k) = c)]

LowerChar(c) == IF c \in UpperSet THEN LowerOf[c] ELSE c

UpperChar(c) == IF c \in LowerSet THEN UpperOf[c] ELSE c

IsDigit(c) == c \in DigitSet

\* \w of a JavaScript regular expression: [A-Za-z0-9_]
WordSet == UpperSet \cup LowerSet \cup DigitSet \cup {"_"}

IsWordChar(c) == c \in WordSet

\* \s of a JavaScript regular expression, over the characters the texts use
IsSpace(c) == c \in {" ", "\t", "\n", "\r"}

\* a line terminator, which "." does not match
IsLineEnd(c) == c \in {"\n", "\r"}

RECURSIVE toLowerCase(_)
toLowerCase(s) ==
  IF s = "" THEN ""
  ELSE LowerChar(CharAt(s, 1)) \o toLowerCase(SubSeq(s, 2, Len(s)))

\* String.prototype.includes
includes(s, w) == \E i \in 1..(Len(s) - Len(w) + 1) : SubSeq(s, i, i + Len(w) - 1) = w

(***************************************************************************)
(* Regular expressions of the forms the source uses.  An alternative is a  *)
(* literal, or "pre.*suf"; every regular expression of the normalizer, the *)
(* detector and the first five post-processing rules is an ordered         *)
(* alternation of these, matched case-insensitively (flag i).  A match is  *)
(* reported by the position that follows it, 0 meaning no match.           *)
(***************************************************************************)
Lit(w) == [pre |-> w, star |-> FALSE, suf |-> ""]
Star(p, q) == [pre |-> p, star |-> TRUE, suf |-> q]

\* the literal w stands at position i of s
LitAt(s, i, w) ==
  /\ i >= 1
  /\ i + Len(w) - 1 <= Len(s)
  /\ SubSeq(s, i, i + Len(w) - 1) = w

\* positions j at which the suffix of a "pre.*suf" alternative may start
StarEnds(s, i, alt) ==
  { j \in (i + Len(alt.pre))..(Len(s) - Len(alt.suf) + 1) :
      /\ LitAt(s, j, alt.suf)
      /\ \A k \in (i + Len(alt.pre))..(j - 1) : ~IsLineEnd(CharAt(s, k)) }

Max(S) == CHOOSE x \in S : \A y \in S : y <= x
Min(S) == CHOOSE x \in S : \A y \in S : x <= y

\* the position after the match of one alternative at i (".*" is greedy)
AltEnd(s, i, alt) ==
  IF ~LitAt(s, i, alt.pre) THEN 0
  ELSE IF ~alt.star THEN i + Len(alt.pre)
  ELSE LET ends == StarEnds(s, i, alt)
       IN IF ends = {} THEN 0 ELSE Max(ends) + Len(alt.suf)

\* the first alternative, in the order written, that matches at i
RECURSIVE FirstAltEnd(_, _, _)
FirstAltEnd(s, i, alts) ==
  IF alts = <<>> THEN 0
  ELSE LET e == AltEnd(s, i, Head(alts))
       IN IF e # 0 THEN e ELSE FirstAltEnd(s, i, Tail(alts))

\* RegExp.prototype.test with flag i: the patterns are lower case and are
\* matched against the lower-cased text
RegexTest(s, alts) ==
  LET sl == toLowerCase(s)
  IN \E i \in 1..Len(sl) : FirstAltEnd(sl, i, alts) # 0

\* String.prototype.replace with a global regular expression (flags g, i):
\* leftmost match first, the scan resumes after each match; sl is the
\* lower-cased s, in which the matches are found
RECURSIVE ReplaceFrom(_, _, _, _, _)
ReplaceFrom(s, sl, i, alts, rep) ==
  IF i > Len(s) THEN ""
  ELSE LET e == FirstAltEnd(sl, i, alts)
       IN IF e # 0
          THEN rep \o ReplaceFrom(s, sl, e, alts, rep)
          ELSE CharAt(s, i) \o ReplaceFrom(s, sl, i + 1, alts, rep)

ReplaceAll(s, alts, rep) == ReplaceFrom(s, toLowerCase(s), 1, alts, rep)

\* the first position at or after i whose character is not a digit / a space
DigitRunEnd(s, i) == Min({ j \in i..(Len(s) + 1) : j = Len(s) + 1 \/ ~IsDigit(CharAt(s, j)) })
SpaceRunEnd(s, i) == Min({ j \in i..(Len(s) + 1) : j = Len(s) + 1 \/ ~IsSpace(CharAt(s, j)) })

\* \b at position i: exactly one of the characters before and at i is a word character
WordBoundary(s, i) ==
  (i > 1 /\ i - 1 <= Len(s) /\ IsWordChar(CharAt(s, i - 1)))
    # (i >= 1 /\ i <= Len(s) /\ IsWordChar(CharAt(s, i)))

(***************************************************************************)
(* Transcript normalizer (routes.ts 187-191)                               *)
(***************************************************************************)
NormalizeRules == <<
  [alts |-> <<Lit("purawai"), Lit("buddha way"), Lit("budha way")>>, rep |-> "pudavai"],
  [alts |-> <<Lit("ainurubai"), Star("ainuru", "bai"), Star("ainu", "bai")>>, rep |-> "500 rupai"],
  [alts |-> <<Lit("in the"), Lit("inthe")>>, rep |-> "intha"],
  [alts |-> <<Lit("way")>>, rep |-> "vai"] >>

\* the rules of a list applied in order, each to the output of the one before
RECURSIVE ApplyRules(_, _)
ApplyRules(s, rules) ==
  IF rules = <<>> THEN s
  ELSE ApplyRules(ReplaceAll(s, Head(rules).alts, Head(rules).rep), Tail(rules))

processedTranscription(transcription) == ApplyRules(transcription, NormalizeRules)

(***************************************************************************)
(* Language detector (routes.ts 184, 197-247)                              *)
(***************************************************************************)
DefaultLanguage == "ta"

\* Words in native script are written as one token each, "<T1>".."<T12>" for
\* the twelve Tamil-script words of lines 198-201 in the order they appear,
\* "<H1>".."<H7>" for the seven Devanagari words of lines 205-206 and
\* "<E1>".."<E6>" for the six Telugu-script words of lines 210-211.  No
\* Latin-script pattern of the source matches inside such a token.
tamilPatterns == <<
  <<Lit("pudavai"), Lit("saree"), Lit("<t1>"), Lit("rupai"), Lit("rupee"), Lit("intha"),
    Lit("<t2>"), Lit("<t3>"), Lit("antha")>>,
  <<Lit("purawai"), Lit("buddha way"), Lit("budha way"), Lit("ainurubai"), Star("ainuru", "bai")>>,
  <<Lit("<t4>"), Lit("<t5>"), Lit("<t6>"), Lit("<t7>")>>,
  <<Lit("<t8>"), Lit("<t9>"), Lit("<t10>"), Lit("<t11>"), Lit("<t12>")>> >>

hindiPatterns == <<
  <<Lit("kya"), Lit("hai"), Lit("nahi"), Lit("hum"), Lit("tum"), Lit("<h1>"), Lit("<h2>"),
    Lit("<h3>"), Lit("<h4>")>>,
  <<Lit("rupaye"), Lit("paisa"), Lit("kitna"), Lit("<h5>"), Lit("<h6>"), Lit("<h7>")>> >>

teluguPatterns == <<
  <<Lit("ela"), Lit("enti"), Lit("ekkada"), Lit("telugu"), Lit("<e1>"), Lit("<e2>"), Lit("<e3>")>>,
  <<Lit("rupayalu"), Lit("<e4>"), Lit("<e5>"), Lit("<e6>")>> >>

\* patterns.some(pattern => pattern.test(text))
SomePattern(patterns, text) == \E k \in 1..Len(patterns) : RegexTest(text, patterns[k])

\* languageMap with the entries of Malayalam and Kannada exchanged
languageMap_Exchanged == [tam |-> "ta", tel |-> "te", hin |-> "hi", mal |-> "kn", kan |-> "ml", mar |-> "mr"]

languageMap == [tam |-> "ta", tel |-> "te", hin |-> "hi", mal |-> "ml", kan |-> "kn", mar |-> "mr"]

\* what franc() does is one of: return a code, or throw
FrancThrows == "throw"

\* detectedLanguage with the patterns tested before franc is called, so that
\* an exception of franc leaves the language the patterns chose
detectedLanguage_PatternsFirst(text, detected) ==
  IF SomePattern(tamilPatterns, text) THEN "ta"
  ELSE IF SomePattern(hindiPatterns, text) THEN "hi"
  ELSE IF SomePattern(teluguPatterns, text) THEN "te"
  ELSE IF detected \in DOMAIN languageMap THEN languageMap[detected]
  ELSE DefaultLanguage

\* detectedLanguage with the guess of franc taking priority over the patterns
detectedLanguage_FrancFirst(text, detected) ==
  IF detected = FrancThrows THEN DefaultLanguage
  ELSE IF detected \in DOMAIN languageMap THEN languageMap[detected]
  ELSE IF SomePattern(tamilPatterns, text) THEN "ta"
  ELSE IF SomePattern(hindiPatterns, text) THEN "hi"
  ELSE IF SomePattern(teluguPatterns, text) THEN "te"
  ELSE DefaultLanguage

\* the value of detectedLanguage after the try/catch of lines 214-247;
\* detected is the code franc returned, or FrancThrows
detectedLanguage(text, detected) ==
  IF detected = FrancThrows THEN DefaultLanguage
  ELSE IF SomePattern(tamilPatterns, text) THEN "ta"
  ELSE IF SomePattern(hindiPatterns, text) THEN "hi"
  ELSE IF SomePattern(teluguPatterns, text) THEN "te"
  ELSE IF detected \in DOMAIN languageMap THEN languageMap[detected]
  ELSE DefaultLanguage

(***************************************************************************)
(* Translation post-processor (routes.ts 257-265)                          *)
(***************************************************************************)
PostRules == <<
  [alts |-> <<Lit("pudavai"), Lit("purawai"), Lit("buddha way"), Lit("budha way")>>, rep |-> "saree"],
  [alts |-> <<Lit("rupai"), Lit("rupee"), Lit("ainurubai"), Star("ainuru", "bai")>>, rep |-> "rupees"],
  [alts |-> <<Lit("intha"), Lit("antha"), Lit("in the")>>, rep |-> "this"],
  [alts |-> <<Lit("antha")>>, rep |-> "that"],
  [alts |-> <<Lit("evvalavu"), Lit("etthanai")>>, rep |-> "how much"] >>

\* /\b(\d+)\s*(rupai|rupee|rupees)\b/gi at position i
CurrencyWords == <<"rupai", "rupee", "rupees">>

RECURSIVE CurrencyWordEnd(_, _, _)
CurrencyWordEnd(sl, j, words) ==
  IF words = <<>> THEN 0
  ELSE IF LitAt(sl, j, Head(words)) /\ WordBoundary(sl, j + Len(Head(words)))
       THEN j + Len(Head(words))
       ELSE CurrencyWordEnd(sl, j, Tail(words))

NumCurrencyEnd(sl, i) ==
  IF IsDigit(CharAt(sl, i)) /\ WordBoundary(sl, i)
  THEN CurrencyWordEnd(sl, SpaceRunEnd(sl, DigitRunEnd(sl, i)), CurrencyWords)
  ELSE 0

NumCurrencyRep(s, i) == SubSeq(s, i, DigitRunEnd(s, i) - 1) \o " rupees"

\* /this\s+saree\s+rupees/gi at position i
ThisSareeEnd(sl, i) ==
  IF ~LitAt(sl, i, "this") THEN 0
  ELSE LET a == i + 4
           b == SpaceRunEnd(sl, a)
           c == b + 5
           d == SpaceRunEnd(sl, c)
       IN IF b > a /\ LitAt(sl, b, "saree") /\ d > c /\ LitAt(sl, d, "rupees")
          THEN d + 6 ELSE 0

ThisSareeRep(s, i) == "this saree costs rupees"

\* /this\s+saree\s+(\d+)\s+rupees/gi at position i
ThisSareeNumEnd(sl, i) ==
  IF ~LitAt(sl, i, "this") THEN 0
  ELSE LET a == i + 4
           b == SpaceRunEnd(sl, a)
           c == b + 5
           d == SpaceRunEnd(sl, c)
           e == DigitRunEnd(sl, d)
           f == SpaceRunEnd(sl, e)
       IN IF /\ b > a /\ LitAt(sl, b, "saree") /\ d > c
             /\ e > d /\ f > e /\ LitAt(sl, f, "rupees")
          THEN f + 6 ELSE 0

ThisSareeNumRep(s, i) ==
  LET d == SpaceRunEnd(s, SpaceRunEnd(s, i + 4) + 5)
  IN "this saree costs " \o SubSeq(s, d, DigitRunEnd(s, d) - 1) \o " rupees"

\* the match at position i of one of the three rules above (found in the
\* lower-cased text sl), and its replacement
MatchEnd(rule, sl, i) ==
  CASE rule = "numCurrency" -> NumCurrencyEnd(sl, i)
    [] rule = "thisSaree" -> ThisSareeEnd(sl, i)
    [] rule = "thisSareeNum" -> ThisSareeNumEnd(sl, i)

MatchRep(rule, s, i) ==
  CASE rule = "numCurrency" -> NumCurrencyRep(s, i)
    [] rule = "thisSaree" -> ThisSareeRep(s, i)
    [] rule = "thisSareeNum" -> ThisSareeNumRep(s, i)

\* global replace by such a rule: leftmost match first, resuming after each match
RECURSIVE ReplaceBy(_, _, _, _)
ReplaceBy(s, sl, i, rule) ==
  IF i > Len(s) THEN ""
  ELSE LET e == MatchEnd(rule, sl, i)
       IN IF e # 0
          THEN MatchRep(rule, s, i) \o ReplaceBy(s, sl, e, rule)
          ELSE CharAt(s, i) \o ReplaceBy(s, sl, i + 1, rule)

ReplaceRule(s, rule) == ReplaceBy(s, toLowerCase(s), 1, rule)

\* the post-processed translatedText
postProcess(text) ==
  ReplaceRule(ReplaceRule(ReplaceRule(ApplyRules(text, PostRules),
    "numCurrency"), "thisSaree"), "thisSareeNum")

(***************************************************************************)
(* JavaScript values.  A number is m / 10^e with no trailing zero in the   *)
(* fraction, so that equal numbers are equal records.                      *)
(***************************************************************************)
JsUndefined == [t |-> "undefined", s |-> "", m |-> 0, e |-> 0]
JsNull == [t |-> "null", s |-> "", m |-> 0, e |-> 0]
JsStr(str) == [t |-> "string", s |-> str, m |-> 0, e |-> 0]

RECURSIVE JsNum(_, _)
JsNum(m, e) ==
  IF e > 0 /\ m % 10 = 0 THEN JsNum(m \div 10, e - 1)
  ELSE [t |-> "number", s |-> "", m |-> m, e |-> e]

JsInt(n) == JsNum(n, 0)

\* ToBoolean
Truthy(v) ==
  CASE v.t = "undefined" -> FALSE
    [] v.t = "null" -> FALSE
    [] v.t = "string" -> v.s # ""
    [] v.t = "number" -> v.m # 0
    [] OTHER -> TRUE

DigitValue(c) == (CHOOSE k \in 1..10 : CharAt(DigitChars, k) = c) - 1

\* the value of a string of digits
RECURSIVE DigitsValue(_)
DigitsValue(ds) ==
  IF ds = "" THEN 0
  ELSE 10 * DigitsValue(SubSeq(ds, 1, Len(ds) - 1)) + DigitValue(CharAt(ds, Len(ds)))

RECURSIVE StripChar(_, _)
StripChar(s, c) ==
  IF s = "" THEN ""
  ELSE (IF CharAt(s, 1) = c THEN "" ELSE CharAt(s, 1)) \o StripChar(SubSeq(s, 2, Len(s)), c)

\* parseFloat of "digits" or "digits.digits", the only forms the two
\* extraction patterns capture
parseFloat(str) ==
  LET ip == DigitRunEnd(str, 1)
      fe == IF ip <= Len(str) /\ CharAt(str, ip) = "." THEN DigitRunEnd(str, ip + 1) ELSE ip
      frac == IF fe > ip THEN SubSeq(str, ip + 1, fe - 1) ELSE ""
  IN JsNum(DigitsValue(SubSeq(str, 1, ip - 1) \o frac), Len(frac))

RECURSIVE Pow10(_)
Pow10(n) == IF n = 0 THEN 1 ELSE 10 * Pow10(n - 1)

RECURSIVE NatToString(_)
NatToString(n) ==
  IF n < 10 THEN CharAt(DigitChars, n + 1)
  ELSE NatToString(n \div 10) \o CharAt(DigitChars, (n % 10) + 1)

RECURSIVE PadLeft(_, _)
PadLeft(str, n) == IF Len(str) >= n THEN str ELSE PadLeft("0" \o str, n)

\* Number.prototype.toString, for the non-negative decimals above
NumToString(v) ==
  IF v.e = 0 THEN NatToString(v.m)
  ELSE NatToString(v.m \div Pow10(v.e)) \o "." \o PadLeft(NatToString(v.m % Pow10(v.e)), v.e)

(***************************************************************************)
(* Rule-based fallback extractor (routes.ts 353-443)                       *)
(***************************************************************************)
\* text.split(/\s+/) without its empty strings, which the filter drops anyway
RECURSIVE SplitFrom(_, _)
SplitFrom(s, i) ==
  IF i > Len(s) THEN <<>>
  ELSE IF IsSpace(CharAt(s, i)) THEN SplitFrom(s, i + 1)
  ELSE LET j == Min({ k \in i..(Len(s) + 1) : k = Len(s) + 1 \/ IsSpace(CharAt(s, k)) })
       IN <<SubSeq(s, i, j - 1)>> \o SplitFrom(s, j)

\* the stop-words without the doubled-s spelling of the currency
StopWords_NoRupeess == {"this", "that", "the", "and", "or", "at", "in", "on", "for", "with", "is",
                        "are", "costs", "rupees", "dollars", "price", "per", "each", "piece"}

StopWords == {"this", "that", "the", "and", "or", "at", "in", "on", "for", "with", "is", "are",
              "costs", "rupees", "rupeess", "dollars", "price", "per", "each", "piece"}

\* KeepWord comparing the word as written, not its lower-case form
KeepWord_CaseSensitive(word) == Len(word) > 2 /\ word \notin StopWords

KeepWord(word) == Len(word) > 2 /\ toLowerCase(word) \notin StopWords

productWords(text) == SelectSeq(SplitFrom(text, 1), KeepWord)

RECURSIVE Join(_, _)
Join(words, sep) ==
  IF words = <<>> THEN ""
  ELSE IF Len(words) = 1 THEN words[1]
  ELSE words[1] \o sep \o Join(Tail(words), sep)

\* s.replace(/^\w/, c => c.toUpperCase())
CapitalizeFirst(s) ==
  IF s # "" /\ IsWordChar(CharAt(s, 1)) THEN UpperChar(CharAt(s, 1)) \o SubSeq(s, 2, Len(s)) ELSE s

\* title with the empty string where the placeholder is
title_NoPlaceholder(text) ==
  LET words == productWords(text)
  IN IF Len(words) > 0
     THEN CapitalizeFirst(Join(SubSeq(words, 1, IF Len(words) < 3 THEN Len(words) ELSE 3), " "))
     ELSE ""

title(text) ==
  LET words == productWords(text)
  IN IF Len(words) > 0
     THEN CapitalizeFirst(Join(SubSeq(words, 1, IF Len(words) < 3 THEN Len(words) ELSE 3), " "))
     ELSE "Product"

\* The currency sign of line 368 is written "<Rs>".
PriceKeywords == <<"rupees", "rupeess", "dollars", "inr", "usd", "<rs>", "$">>

QuantityKeywords == <<"kg", "gram", "grams", "liters", "ml", "pieces", "pcs", "units", "pack",
                      "bottle", "jar">>

\* \s*(?:k1|k2|...) matches at p
KeywordAfter(sl, p, keywords) ==
  LET q == SpaceRunEnd(sl, p)
  IN \E k \in 1..Len(keywords) : LitAt(sl, q, keywords[k])

\* (?:,\d{3}) stands at p
CommaGroupAt(sl, p) ==
  /\ p + 3 <= Len(sl)
  /\ CharAt(sl, p) = ","
  /\ \A k \in 1..3 : IsDigit(CharAt(sl, p + k))

RECURSIVE MaxCommaGroups(_, _)
MaxCommaGroups(sl, p) == IF CommaGroupAt(sl, p) THEN 1 + MaxCommaGroups(sl, p + 4) ELSE 0

\* (?:\.\d{2}) stands at p
DecimalAt(sl, p) ==
  p + 2 <= Len(sl) /\ CharAt(sl, p) = "." /\ IsDigit(CharAt(sl, p + 1)) /\ IsDigit(CharAt(sl, p + 2))

\* (?:\.\d{2})? then the keyword: with the fraction first, then without
PriceTryDecimal(sl, p) ==
  IF DecimalAt(sl, p) /\ KeywordAfter(sl, p + 3, PriceKeywords) THEN p + 3
  ELSE IF KeywordAfter(sl, p, PriceKeywords) THEN p
  ELSE 0

\* (?:,\d{3})* is greedy: g groups first, then fewer
RECURSIVE PriceTryCommas(_, _, _)
PriceTryCommas(sl, p, g) ==
  LET e == PriceTryDecimal(sl, p + 4 * g)
  IN IF e # 0 THEN e ELSE IF g = 0 THEN 0 ELSE PriceTryCommas(sl, p, g - 1)

\* \d+ is greedy: the whole run of digits first, then shorter ones
RECURSIVE PriceTryDigits(_, _, _)
PriceTryDigits(sl, i, d) ==
  LET e == PriceTryCommas(sl, d, MaxCommaGroups(sl, d))
  IN IF e # 0 THEN e ELSE IF d = i + 1 THEN 0 ELSE PriceTryDigits(sl, i, d - 1)

\* the position after group 1 of the price pattern matched at i, or 0
PriceGroupEnd(sl, i) ==
  IF IsDigit(CharAt(sl, i)) THEN PriceTryDigits(sl, i, DigitRunEnd(sl, i)) ELSE 0

\* (?:\.\d+)? then the keyword: the longest fraction first, then shorter, then none
RECURSIVE QuantityTryFraction(_, _, _)
QuantityTryFraction(sl, p, f) ==
  IF f > p + 1 /\ KeywordAfter(sl, f, QuantityKeywords) THEN f
  ELSE IF f > p + 1 THEN QuantityTryFraction(sl, p, f - 1)
  ELSE IF KeywordAfter(sl, p, QuantityKeywords) THEN p
  ELSE 0

RECURSIVE QuantityTryDigits(_, _, _)
QuantityTryDigits(sl, i, d) ==
  LET f == IF d <= Len(sl) /\ CharAt(sl, d) = "." THEN DigitRunEnd(sl, d + 1) ELSE d
      e == QuantityTryFraction(sl, d, f)
  IN IF e # 0 THEN e ELSE IF d = i + 1 THEN 0 ELSE QuantityTryDigits(sl, i, d - 1)

QuantityGroupEnd(sl, i) ==
  IF IsDigit(CharAt(sl, i)) THEN QuantityTryDigits(sl, i, DigitRunEnd(sl, i)) ELSE 0

\* group 1 of text.match(pattern): the leftmost match; "" when there is none
FirstGroup(text, kind) ==
  LET sl == toLowerCase(text)
      End(i) == IF kind = "price" THEN PriceGroupEnd(sl, i) ELSE QuantityGroupEnd(sl, i)
      starts == { i \in 1..Len(sl) : End(i) # 0 }
  IN IF starts = {} THEN "" ELSE SubSeq(text, Min(starts), End(Min(starts)) - 1)

price(text) ==
  LET g == FirstGroup(text, "price")
  IN IF g = "" THEN JsNull ELSE parseFloat(StripChar(g, ","))

\* quantity starting from 0 instead of 1
quantity_DefaultZero(text) ==
  LET g == FirstGroup(text, "quantity")
  IN IF g = "" THEN JsInt(0) ELSE parseFloat(g)

quantity(text) ==
  LET g == FirstGroup(text, "quantity")
  IN IF g = "" THEN JsInt(1) ELSE parseFloat(g)

\* Object.entries(ecommerceCategories), in insertion order
ecommerceCategories == <<
  [cat |-> "Health & Beauty > Soap", keywords |-> <<"soap", "handmade soap", "neem soap", "ayurvedic soap", "herbal soap">>],
  [cat |-> "Health & Beauty > Skincare", keywords |-> <<"cream", "lotion", "face wash", "moisturizer", "sunscreen">>],
  [cat |-> "Health & Beauty > Haircare", keywords |-> <<"shampoo", "conditioner", "hair oil", "hair mask">>],
  [cat |-> "Food & Beverages > Spices", keywords |-> <<"turmeric", "chili", "coriander", "cumin", "garam masala", "spice">>],
  [cat |-> "Food & Beverages > Oils", keywords |-> <<"coconut oil", "mustard oil", "sesame oil", "groundnut oil", "ghee">>],
  [cat |-> "Food & Beverages > Grains", keywords |-> <<"rice", "wheat", "dal", "lentils", "quinoa", "oats">>],
  [cat |-> "Food & Beverages > Vegetables", keywords |-> <<"onion", "potato", "tomato", "carrot", "cabbage", "spinach">>],
  [cat |-> "Food & Beverages > Fruits", keywords |-> <<"apple", "banana", "mango", "orange", "grape", "strawberry">>],
  [cat |-> "Home & Garden > Furniture", keywords |-> <<"chair", "table", "bed", "sofa", "cabinet", "shelf">>],
  [cat |-> "Home & Garden > Decor", keywords |-> <<"lamp", "mirror", "curtain", "vase", "painting", "cushion">>],
  [cat |-> "Clothing & Accessories > Men", keywords |-> <<"shirt", "pants", "jeans", "t-shirt", "jacket", "kurta">>],
  [cat |-> "Clothing & Accessories > Women", keywords |-> <<"dress", "saree", "blouse", "skirt", "top", "lehenga">>],
  [cat |-> "Electronics > Mobile", keywords |-> <<"phone", "smartphone", "mobile", "charger", "headphones">>],
  [cat |-> "Electronics > Computers", keywords |-> <<"laptop", "computer", "tablet", "keyboard", "mouse">>],
  [cat |-> "Handicrafts > Textiles", keywords |-> <<"handwoven", "embroidered", "cotton", "silk", "wool">>],
  [cat |-> "Handicrafts > Pottery", keywords |-> <<"clay", "ceramic", "earthenware", "pottery", "terracotta">>],
  [cat |-> "Baby & Kids > Toys", keywords |-> <<"toy", "doll", "game", "puzzle", "blocks">>],
  [cat |-> "Sports & Fitness > Equipment", keywords |-> <<"yoga mat", "dumbbell", "cricket bat", "football">>] >>

\* keywords.some(keyword => lowerText.includes(keyword))
SomeKeyword(lowerText, keywords) == \E k \in 1..Len(keywords) : includes(lowerText, keywords[k])

\* category with the keywords looked up in the text as written
category_CaseSensitive(text) ==
  LET hits == { k \in 1..Len(ecommerceCategories) :
                  SomeKeyword(text, ecommerceCategories[k].keywords) }
  IN IF hits = {} THEN "General" ELSE ecommerceCategories[Min(hits)].cat

\* category with the loop running on after a match (no break): the last entry wins
category_LastMatch(text) ==
  LET lowerText == toLowerCase(text)
      hits == { k \in 1..Len(ecommerceCategories) :
                  SomeKeyword(lowerText, ecommerceCategories[k].keywords) }
  IN IF hits = {} THEN "General" ELSE ecommerceCategories[Max(hits)].cat

\* the loop of lines 403-408: the first entry with a keyword in the text
category(text) ==
  LET lowerText == toLowerCase(text)
      hits == { k \in 1..Len(ecommerceCategories) :
                  SomeKeyword(lowerText, ecommerceCategories[k].keywords) }
  IN IF hits = {} THEN "General" ELSE ecommerceCategories[Min(hits)].cat

\* category.split(' > ')[1] || category.split(' > ')[0]
subCategory(cat) ==
  LET cuts == { i \in 1..(Len(cat) - 2) : SubSeq(cat, i, i + 2) = " > " }
      rest == SubSeq(cat, Min(cuts) + 3, Len(cat))
      cuts2 == { i \in 1..(Len(rest) - 2) : SubSeq(rest, i, i + 2) = " > " }
      second == IF cuts2 = {} THEN rest ELSE SubSeq(rest, 1, Min(cuts2) - 1)
  IN IF cuts = {} THEN cat
     ELSE IF second # "" THEN second
     ELSE SubSeq(cat, 1, Min(cuts) - 1)

\* `${price ? prefix + price : ''}`
PriceText(prefix, pr) == IF Truthy(pr) THEN prefix \o "<Rs>" \o NumToString(pr) ELSE ""

\* description with the test for "fresh" and produce before the test for
\* handmade, natural and organic
description_FreshFirst(text) ==
  LET lowerText == toLowerCase(text)
      ttl == toLowerCase(title(text))
      cat == category(text)
      pr == price(text)
  IN IF includes(lowerText, "fresh") \/ includes(cat, "Vegetables") \/ includes(cat, "Fruits")
     THEN "Fresh " \o ttl \o " directly from farms. High quality, pesticide-free produce"
          \o PriceText(" at ", pr) \o ". Perfect for healthy cooking and nutritious meals."
     ELSE IF includes(lowerText, "handmade") \/ includes(lowerText, "natural") \/ includes(lowerText, "organic")
     THEN "Premium handcrafted " \o ttl \o " made with natural ingredients. Perfect for daily use"
          \o PriceText(" at just ", pr) \o ". Authentic quality product sourced directly from artisans."
     ELSE IF includes(cat, "Oil") \/ includes(cat, "Spices")
     THEN "Pure " \o ttl \o " with authentic taste and aroma. Traditional quality preserved"
          \o PriceText(" at ", pr) \o ". Essential for authentic Indian cooking."
     ELSE "High-quality " \o ttl \o " from trusted sources. Excellent " \o toLowerCase(subCategory(cat))
          \o " item" \o PriceText(" priced at ", pr) \o " with reliable performance and durability."

\* the description templates of lines 414-423
description(text) ==
  LET lowerText == toLowerCase(text)
      ttl == toLowerCase(title(text))
      cat == category(text)
      pr == price(text)
  IN IF includes(lowerText, "handmade") \/ includes(lowerText, "natural") \/ includes(lowerText, "organic")
     THEN "Premium handcrafted " \o ttl \o " made with natural ingredients. Perfect for daily use"
          \o PriceText(" at just ", pr) \o ". Authentic quality product sourced directly from artisans."
     ELSE IF includes(lowerText, "fresh") \/ includes(cat, "Vegetables") \/ includes(cat, "Fruits")
     THEN "Fresh " \o ttl \o " directly from farms. High quality, pesticide-free produce"
          \o PriceText(" at ", pr) \o ". Perfect for healthy cooking and nutritious meals."
     ELSE IF includes(cat, "Oil") \/ includes(cat, "Spices")
     THEN "Pure " \o ttl \o " with authentic taste and aroma. Traditional quality preserved"
          \o PriceText(" at ", pr) \o ". Essential for authentic Indian cooking."
     ELSE "High-quality " \o ttl \o " from trusted sources. Excellent " \o toLowerCase(subCategory(cat))
          \o " item" \o PriceText(" priced at ", pr) \o " with reliable performance and durability."

\* an extraction result: { success, details } or { success: false, error, details }
\* details is an object with the five fields the catalog writer reads, or null
Details(ttl, desc, cat, pr, qty) ==
  [isNull |-> FALSE, title |-> ttl, description |-> desc, category |-> cat, price |-> pr, quantity |-> qty]

NullDetails == [isNull |-> TRUE, title |-> JsUndefined, description |-> JsUndefined,
                category |-> JsUndefined, price |-> JsUndefined, quantity |-> JsUndefined]

\* extractWithPatterns never reaches its catch block on a string: every step
\* of lines 355-434 is defined on every string
extractWithPatterns(text) ==
  [success |-> TRUE,
   details |-> Details(JsStr(title(text)), JsStr(description(text)), JsStr(category(text)),
                       price(text), quantity(text))]

(***************************************************************************)
(* The environment of one server process and the inputs it is given        *)
(***************************************************************************)
\* number of POST /api/translate requests the server receives
MaxReq == 1
\* Date.now() advances at most this far while the requests are served
MaxNow == 1
\* Math.random() yields one of this many suffixes for a product id
MaxRandom == 2

\* req.body.transcription: absent, not a string, an empty string, or a transcript
Bodies == {
  [kind |-> "undefined", text |-> ""],
  [kind |-> "number", text |-> ""],
  [kind |-> "string", text |-> ""],
  [kind |-> "string", text |-> "purawai 500 rupai"],
  [kind |-> "string", text |-> "kya hai"] }

\* what franc() may do: an ISO 639-3 code, "und" when it cannot tell, or an exception
FrancOutcomes == {"hin", "und", FrancThrows}

\* texts the translator may return
TranslatorReplies == {"saree 500 rupees"}

\* texts the translator may return to two requests in flight together
ConcurrentReplies == TranslatorReplies \cup {"fresh onion 2 kg"}

\* what the chat completion may do: throw (network, quota), or return a
\* message whose content is not JSON, is the JSON null, or is a JSON object;
\* the prompt of line 325 asks for a field "name", not "title"
LlmObjects == {
  Details(JsStr("Silk Saree"), JsStr("A silk saree"), JsStr("Clothing"), JsInt(500), JsInt(2)),
  Details(JsUndefined, JsUndefined, JsUndefined, JsStr("500"), JsNull),
  Details(JsInt(42), JsStr(""), JsNull, JsNull, JsStr("two")) }

NoLlmReply == [kind |-> "none", details |-> NullDetails]
LlmThrew == [kind |-> "threw", details |-> NullDetails]

LlmReplies == {[kind |-> "malformed", details |-> NullDetails],
               [kind |-> "json", details |-> NullDetails]}
              \cup { [kind |-> "json", details |-> d] : d \in LlmObjects }

\* the pure stages, tabulated over the texts that reach them
Transcripts == { b.text : b \in { x \in Bodies : x.kind = "string" /\ x.text # "" } }
processedOf == [t \in Transcripts |-> processedTranscription(t)]
detectedOf == [t \in Transcripts, d \in FrancOutcomes |-> detectedLanguage(processedOf[t], d)]
translatedOf == [t \in ConcurrentReplies |-> postProcess(t)]
fallbackOf == [t \in ConcurrentReplies |-> extractWithPatterns(translatedOf[t])]

(***************************************************************************)
(* State                                                                   *)
(***************************************************************************)
VARIABLES
  runs,       \* runs[r]: the locals of the handler serving request r, and its response
  products,   \* MemStorage.products: id -> product
  now,        \* Date.now()
  openaiKey,  \* whether process.env.OPENAI_API_KEY is set
  arg,        \* the argument of a stage that is run on its own
  result      \* and what the stage returned

vars == <<runs, products, now, openaiKey, arg, result>>

\* the stages run within a request only
NoCall == [fn |-> "none"]

NoProduct == [isNull |-> TRUE, id |-> <<0, 0>>, title |-> JsUndefined, description |-> JsUndefined,
              category |-> JsUndefined, price |-> JsUndefined, quantity |-> JsUndefined,
              last_updated |-> 0]

NoExtraction == [success |-> FALSE, details |-> NullDetails]

\* res.json(...) / res.status(...).json(...); status 0: no response sent yet
NoResponse == [status |-> 0, error |-> "", detected_language |-> "", translated_text |-> "",
               original_text |-> "", processed_text |-> "", extracted_details |-> NoExtraction,
               product_created |-> NoProduct]

\* pc: where the handler is suspended: "idle" before the request arrives,
\* "translate", "llm", "store" at the three awaits, "done" after the response.
\* franc, reply and llm record what franc, the translator and the completion
\* did (llm.kind: "none" not called, "threw", "malformed", "json"); trace
\* records the stages that ran, in order; thrown records the message of an
\* exception raised inside extractWithPatterns.
IdleRun == [pc |-> "idle", transcription |-> [kind |-> "undefined", text |-> ""],
            processedTranscription |-> "", detectedLanguage |-> "", translatedText |-> "",
            extractedDetails |-> NoExtraction, productData |-> NoProduct,
            franc |-> "", reply |-> "", llm |-> NoLlmReply, trace |-> <<>>, thrown |-> "",
            response |-> NoResponse]

Init ==
  /\ runs = [r \in 1..MaxReq |-> IdleRun]
  /\ products = <<>>
  /\ now = 0
  /\ openaiKey \in BOOLEAN
  /\ arg = NoCall
  /\ result = NoCall

(***************************************************************************)
(* createProductFromExtraction (routes.ts 446-468) and                     *)
(* MemStorage.createProduct (storage.ts, the string-id store)              *)
(***************************************************************************)
\* a || b
OrElse(a, b) == IF Truthy(a) THEN a ELSE b

\* productData copying the five fields as the details have them
productData_NoDefaults(translatedText, details) ==
  [isNull |-> FALSE, id |-> <<0, 0>>,
   title |-> details.title,
   description |-> details.description,
   category |-> details.category,
   price |-> details.price,
   quantity |-> details.quantity,
   last_updated |-> 0]

productData(translatedText, details) ==
  [isNull |-> FALSE, id |-> <<0, 0>>,
   title |-> OrElse(details.title, JsStr("Voice Extracted Product")),
   description |-> OrElse(details.description, JsStr("Product mentioned: " \o translatedText)),
   category |-> OrElse(details.category, JsStr("General")),
   price |-> IF details.price.t = "number" THEN details.price ELSE JsNull,
   quantity |-> IF details.quantity.t = "number" THEN details.quantity ELSE JsInt(1),
   last_updated |-> 0]

\* `uuid-${Date.now()}-${Math.random().toString(36).substr(2, 9)}`
ProductId(ms, rnd) == <<ms, rnd>>

createProduct(insertProduct, ms, rnd) ==
  [insertProduct EXCEPT !.id = ProductId(ms, rnd), !.last_updated = ms]

\* this.products.set(id, product)
MapSet(map, key, val) == [k \in DOMAIN map \cup {key} |-> IF k = key THEN val ELSE map[k]]

(***************************************************************************)
(* POST /api/translate (routes.ts 173-309), one action per stretch of the  *)
(* handler between two awaits                                              *)
(***************************************************************************)
OkResponse(run, extracted, created) ==
  [status |-> 200, error |-> "",
   detected_language |-> run.detectedLanguage,
   translated_text |-> run.translatedText,
   original_text |-> run.transcription.text,
   processed_text |-> run.processedTranscription,
   extracted_details |-> extracted,
   product_created |-> created]

ErrorResponse(code, message, language) ==
  [NoResponse EXCEPT !.status = code, !.error = message, !.detected_language = language]

\* AfterExtraction with the response sent before the catalog write is awaited
AfterExtraction_NoAwait(run, extracted, events) ==
  IF extracted.success /\ ~extracted.details.isNull
  THEN [run EXCEPT !.pc = "store",
                   !.extractedDetails = extracted,
                   !.productData = productData(run.translatedText, extracted.details),
                   !.trace = run.trace \o events \o <<"extract.end", "respond", "store.call">>,
                   !.response = OkResponse(run, extracted, NoProduct)]
  ELSE [run EXCEPT !.pc = "done",
                   !.extractedDetails = extracted,
                   !.trace = run.trace \o events \o <<"extract.end", "respond">>,
                   !.response = OkResponse(run, extracted, NoProduct)]

\* lines 272-295 up to the await of storage.createProduct: with a successful
\* extraction the catalog writer is called, otherwise the response is sent
AfterExtraction(run, extracted, events) ==
  IF extracted.success /\ ~extracted.details.isNull
  THEN [run EXCEPT !.pc = "store",
                   !.extractedDetails = extracted,
                   !.productData = productData(run.translatedText, extracted.details),
                   !.trace = run.trace \o events \o <<"extract.end", "store.call">>]
  ELSE [run EXCEPT !.pc = "done",
                   !.extractedDetails = extracted,
                   !.trace = run.trace \o events \o <<"extract.end", "respond">>,
                   !.response = OkResponse(run, extracted, NoProduct)]

\* Receive without the check of line 177: the pipeline runs on any body
Receive_NoValidation(r, body, detected) ==
  /\ runs[r].pc = "idle"
  /\ runs' = [runs EXCEPT ![r] =
       [@ EXCEPT !.pc = "translate",
                 !.transcription = body,
                 !.processedTranscription =
                    IF body.text \in Transcripts THEN processedOf[body.text] ELSE "",
                 !.franc = detected,
                 !.detectedLanguage =
                    IF body.text \in Transcripts THEN detectedOf[body.text, detected]
                    ELSE DefaultLanguage,
                 !.trace = <<"normalize", "detect", "translate.call">>]]
  /\ UNCHANGED <<products, now, openaiKey, arg, result>>

\* lines 174-254: validation, normalizer, detector, call of the translator
Receive(r, body, detected) ==
  /\ runs[r].pc = "idle"
  /\ IF body.kind # "string" \/ body.text = ""
     THEN runs' = [runs EXCEPT ![r] =
            [@ EXCEPT !.pc = "done",
                      !.transcription = body,
                      !.trace = <<"respond">>,
                      !.response = ErrorResponse(400, "Transcription text is required", "")]]
     ELSE runs' = [runs EXCEPT ![r] =
            [@ EXCEPT !.pc = "translate",
                      !.transcription = body,
                      !.processedTranscription = processedOf[body.text],
                      !.franc = detected,
                      !.detectedLanguage = detectedOf[body.text, detected],
                      !.trace = <<"normalize", "detect", "translate.call">>]]
  /\ UNCHANGED <<products, now, openaiKey, arg, result>>

\* TranslateReturns running the fallback extractor before the LLM is tried
TranslateReturns_FallbackFirst(r, text) ==
  /\ runs[r].pc = "translate"
  /\ LET run == [runs[r] EXCEPT !.reply = text, !.translatedText = translatedOf[text]]
         events == <<"translate.return", "postprocess", "extract.begin", "fallback">>
     IN runs' = [runs EXCEPT ![r] =
          IF openaiKey
          THEN [run EXCEPT !.pc = "llm", !.trace = run.trace \o events \o <<"llm.call">>]
          ELSE AfterExtraction(run, fallbackOf[text], events)]
  /\ UNCHANGED <<products, now, openaiKey, arg, result>>

\* TranslateReturns keeping the translated text in a variable that all
\* requests share
TranslateReturns_SharedText(r, text) ==
  /\ runs[r].pc = "translate"
  /\ LET run == [runs[r] EXCEPT !.reply = text, !.translatedText = translatedOf[text]]
         events == <<"translate.return", "postprocess", "extract.begin">>
     IN runs' = [q \in DOMAIN runs |->
          IF q # r
          THEN [runs[q] EXCEPT !.translatedText = translatedOf[text]]
          ELSE IF openaiKey
          THEN [run EXCEPT !.pc = "llm", !.trace = run.trace \o events \o <<"llm.call">>]
          ELSE AfterExtraction(run, fallbackOf[text], events \o <<"fallback">>)]
  /\ UNCHANGED <<products, now, openaiKey, arg, result>>

\* lines 251-270 and 312-333: the translator returned; post-processing, then
\* extractDetailsFromText calls the LLM when a key is configured and runs the
\* fallback extractor otherwise
TranslateReturns(r, text) ==
  /\ runs[r].pc = "translate"
  /\ LET run == [runs[r] EXCEPT !.reply = text, !.translatedText = translatedOf[text]]
         events == <<"translate.return", "postprocess", "extract.begin">>
     IN runs' = [runs EXCEPT ![r] =
          IF openaiKey
          THEN [run EXCEPT !.pc = "llm", !.trace = run.trace \o events \o <<"llm.call">>]
          ELSE AfterExtraction(run, fallbackOf[text], events \o <<"fallback">>)]
  /\ UNCHANGED <<products, now, openaiKey, arg, result>>

\* TranslateThrows answering without the detected language
TranslateThrows_NoLanguage(r) ==
  /\ runs[r].pc = "translate"
  /\ runs' = [runs EXCEPT ![r] =
       [@ EXCEPT !.pc = "done",
                 !.trace = @ \o <<"translate.throw", "respond">>,
                 !.response = ErrorResponse(500, "Translation failed. Please try again.", "")]]
  /\ UNCHANGED <<products, now, openaiKey, arg, result>>

\* lines 297-303: the translator threw
TranslateThrows(r) ==
  /\ runs[r].pc = "translate"
  /\ runs' = [runs EXCEPT ![r] =
       [@ EXCEPT !.pc = "done",
                 !.trace = @ \o <<"translate.throw", "respond">>,
                 !.response = ErrorResponse(500, "Translation failed. Please try again.",
                                            runs[r].detectedLanguage)]]
  /\ UNCHANGED <<products, now, openaiKey, arg, result>>

\* LlmReturns where a reply that is not JSON ends the extraction in failure
LlmReturns_MalformedFails(r, reply) ==
  /\ runs[r].pc = "llm"
  /\ runs' = [runs EXCEPT ![r] =
       IF reply.kind = "json"
       THEN AfterExtraction([runs[r] EXCEPT !.llm = reply],
                            [success |-> TRUE, details |-> reply.details], <<"llm.return">>)
       ELSE AfterExtraction([runs[r] EXCEPT !.llm = reply], NoExtraction, <<"llm.return">>)]
  /\ UNCHANGED <<products, now, openaiKey, arg, result>>

\* lines 335-349: the completion returned; JSON.parse of its content either
\* gives the details or throws into the catch block, which falls back
LlmReturns(r, reply) ==
  /\ runs[r].pc = "llm"
  /\ runs' = [runs EXCEPT ![r] =
       IF reply.kind = "json"
       THEN AfterExtraction([runs[r] EXCEPT !.llm = reply],
                            [success |-> TRUE, details |-> reply.details], <<"llm.return">>)
       ELSE AfterExtraction([runs[r] EXCEPT !.llm = reply],
                            fallbackOf[runs[r].reply], <<"llm.return", "fallback">>)]
  /\ UNCHANGED <<products, now, openaiKey, arg, result>>

\* LlmThrows with the exception reaching the handler's catch block
LlmThrows_Propagates(r) ==
  /\ runs[r].pc = "llm"
  /\ runs' = [runs EXCEPT ![r] =
       [@ EXCEPT !.pc = "done",
                 !.llm = LlmThrew,
                 !.trace = @ \o <<"llm.throw", "respond">>,
                 !.response = ErrorResponse(500, "Translation failed. Please try again.",
                                            runs[r].detectedLanguage)]]
  /\ UNCHANGED <<products, now, openaiKey, arg, result>>

\* lines 341-349: the completion call threw
LlmThrows(r) ==
  /\ runs[r].pc = "llm"
  /\ runs' = [runs EXCEPT ![r] =
       AfterExtraction([runs[r] EXCEPT !.llm = LlmThrew],
                       fallbackOf[runs[r].reply], <<"llm.throw", "fallback">>)]
  /\ UNCHANGED <<products, now, openaiKey, arg, result>>

\* lines 461-463 and 288-295: storage.createProduct stored the entry
StoreReturns(r, rnd) ==
  /\ runs[r].pc = "store"
  /\ LET created == createProduct(runs[r].productData, now, rnd)
     IN /\ products' = MapSet(products, created.id, created)
        /\ runs' = [runs EXCEPT ![r] =
             [@ EXCEPT !.pc = "done",
                       !.trace = @ \o <<"store.return", "respond">>,
                       !.response = OkResponse(runs[r], runs[r].extractedDetails, created)]]
  /\ UNCHANGED <<now, openaiKey, arg, result>>

\* StoreThrows with the exception reaching the handler's catch block
StoreThrows_Propagates(r) ==
  /\ runs[r].pc = "store"
  /\ runs' = [runs EXCEPT ![r] =
       [@ EXCEPT !.pc = "done",
                 !.trace = @ \o <<"store.throw", "respond">>,
                 !.response = ErrorResponse(500, "Translation failed. Please try again.",
                                            runs[r].detectedLanguage)]]
  /\ UNCHANGED <<products, now, openaiKey, arg, result>>

\* lines 464-467 and 282-295: storage.createProduct threw
StoreThrows(r) ==
  /\ runs[r].pc = "store"
  /\ runs' = [runs EXCEPT ![r] =
       [@ EXCEPT !.pc = "done",
                 !.trace = @ \o <<"store.throw", "respond">>,
                 !.response = OkResponse(runs[r], runs[r].extractedDetails, NoProduct)]]
  /\ UNCHANGED <<products, now, openaiKey, arg, result>>

\* time passes
Tick ==
  /\ now < MaxNow
  /\ now' = now + 1
  /\ UNCHANGED <<runs, products, openaiKey, arg, result>>

Next ==
  \/ \E r \in DOMAIN runs, body \in Bodies, detected \in FrancOutcomes : Receive(r, body, detected)
  \/ \E r \in DOMAIN runs, text \in TranslatorReplies : TranslateReturns(r, text)
  \/ \E r \in DOMAIN runs : TranslateThrows(r)
  \/ \E r \in DOMAIN runs, reply \in LlmReplies : LlmReturns(r, reply)
  \/ \E r \in DOMAIN runs : LlmThrows(r)
  \/ \E r \in DOMAIN runs, rnd \in 1..MaxRandom : StoreReturns(r, rnd)
  \/ \E r \in DOMAIN runs : StoreThrows(r)
  \/ Tick

Spec == Init /\ [][Next]_vars

(***************************************************************************)
(* Properties of the pipeline                                              *)
(***************************************************************************)
Has(trace, ev) == \E i \in 1..Len(trace) : trace[i] = ev
Pos(trace, ev) == Min({ i \in 1..Len(trace) : trace[i] = ev })
Count(trace, ev) == Cardinality({ i \in 1..Len(trace) : trace[i] = ev })
\* b happens only after a
Before(trace, a, b) == Has(trace, b) => (Has(trace, a) /\ Pos(trace, a) < Pos(trace, b))

ValidBody(body) == body.kind = "string" /\ body.text # ""
Finished(r) == runs[r].pc = "done"

\* every stored product is the entry some run's storage write returned
StoreOnlyFromRuns ==
  \A id \in DOMAIN products :
    \E r \in DOMAIN runs : Has(runs[r].trace, "store.return") /\ runs[r].response.product_created.id = id

\* C1: a request with a non-empty string transcript whose translator call
\* returned is answered with a success response that carries the translation,
\* whatever the LLM and the storage write did; an error response is either
\* the 400 of an input error or the 500 of a translator failure.
C1_OnlyInputAndTranslatorErrorsAbort ==
  \A r \in DOMAIN runs :
    Finished(r) =>
      /\ (ValidBody(runs[r].transcription) /\ Has(runs[r].trace, "translate.return"))
           => /\ runs[r].response.status = 200
              /\ runs[r].response.translated_text = translatedOf[runs[r].reply]
      /\ runs[r].response.status # 200
           => \/ ~ValidBody(runs[r].transcription) /\ runs[r].response.status = 400
              \/ Has(runs[r].trace, "translate.throw") /\ runs[r].response.status = 500

C1_Witness ==
  \E r \in DOMAIN runs :
    /\ Finished(r) /\ runs[r].response.status = 200
    /\ runs[r].llm.kind = "threw"
    /\ Has(runs[r].trace, "store.throw")

\* C2: when the translator call fails the run ends with an error response
\* that carries the detected language computed before the call; the
\* translator is not called again and no translation is produced, the
\* extractor is never invoked and the run writes no catalog entry.
C2_TranslatorFailureIsFatal ==
  /\ StoreOnlyFromRuns
  /\ \A r \in DOMAIN runs :
       Has(runs[r].trace, "translate.throw") =>
         /\ Finished(r)
         /\ runs[r].response.status = 500
         /\ runs[r].response.detected_language = detectedOf[runs[r].transcription.text, runs[r].franc]
         /\ runs[r].response.translated_text = ""
         /\ runs[r].translatedText = ""
         /\ Count(runs[r].trace, "translate.call") = 1
         /\ \A ev \in {"translate.return", "postprocess", "extract.begin", "llm.call", "fallback",
                       "store.call", "store.return"} : ~Has(runs[r].trace, ev)
         /\ runs[r].response.extracted_details = NoExtraction
         /\ runs[r].response.product_created.isNull

C2_Witness ==
  \E r \in DOMAIN runs :
    /\ Has(runs[r].trace, "translate.throw")
    /\ runs[r].response.detected_language = "hi"

\* C3: when the LLM call throws or its reply is not JSON, the response is a
\* success response whose extracted_details has success = true and the details
\* the rule-based fallback extractor computes from the translated text.
C3_LlmFailureFallsBack ==
  \A r \in DOMAIN runs :
    (Finished(r) /\ runs[r].llm.kind \in {"threw", "malformed"}) =>
      /\ runs[r].response.status = 200
      /\ runs[r].response.extracted_details.success
      /\ ~runs[r].response.extracted_details.details.isNull
      /\ runs[r].response.extracted_details = fallbackOf[runs[r].reply]
      /\ runs[r].response.extracted_details.details.title.t = "string"
      /\ runs[r].response.extracted_details.details.title.s # ""

C3_Witness ==
  \E r \in DOMAIN runs :
    /\ Finished(r) /\ runs[r].llm.kind = "malformed"
    /\ runs[r].response.extracted_details.details.title = JsStr("Saree 500")

\* C4: when storage.createProduct throws, the response is a success response
\* with no catalog entry; its detected language, translated text and
\* extraction result are those the run had computed before the write, the
\* same that are sent when the write succeeds.
C4_CatalogFailureIsNotFatal ==
  \A r \in DOMAIN runs :
    (Finished(r) /\ Has(runs[r].trace, "store.call")) =>
      /\ [runs[r].response EXCEPT !.product_created = NoProduct]
           = [status |-> 200, error |-> "",
              detected_language |-> detectedOf[runs[r].transcription.text, runs[r].franc],
              translated_text |-> translatedOf[runs[r].reply],
              original_text |-> runs[r].transcription.text,
              processed_text |-> processedOf[runs[r].transcription.text],
              extracted_details |-> runs[r].extractedDetails,
              product_created |-> NoProduct]
      /\ runs[r].extractedDetails =
           (IF runs[r].llm.kind = "json" THEN [success |-> TRUE, details |-> runs[r].llm.details]
            ELSE fallbackOf[runs[r].reply])
      /\ Has(runs[r].trace, "store.throw") <=> runs[r].response.product_created.isNull

C4_Witness ==
  \E r \in DOMAIN runs :
    /\ Finished(r) /\ Has(runs[r].trace, "store.throw")
    /\ runs[r].response.status = 200
    /\ runs[r].response.extracted_details.success
    /\ runs[r].response.product_created.isNull

\* C5: the step that receives a request whose transcript is missing, not a
\* string or empty answers it at once with the 400 error: no stage runs, no
\* collaborator is called and the catalog is left as it was.
C5_InvalidInputRejectedAtOnce ==
  [][ \A r \in DOMAIN runs :
        (runs[r].pc = "idle" /\ runs'[r].pc # "idle" /\ ~ValidBody(runs'[r].transcription)) =>
          /\ runs'[r] = [IdleRun EXCEPT
                           !.pc = "done",
                           !.transcription = runs'[r].transcription,
                           !.trace = <<"respond">>,
                           !.response = ErrorResponse(400, "Transcription text is required", "")]
          /\ products' = products ]_vars

C5_Witness ==
  \E r \in DOMAIN runs :
    /\ Finished(r)
    /\ runs[r].transcription = [kind |-> "string", text |-> ""]
    /\ runs[r].response.status = 400

\* C6: within a run the stages happen once each and in the order normalize,
\* detect, translate, post-process, extract, catalog write, respond: the
\* translator has returned before extraction begins, extraction has ended
\* before the catalog write is called, and when the write was called the
\* response is sent only after it returned or threw.
C6_StagesInFixedOrder ==
  \A r \in DOMAIN runs :
    LET t == runs[r].trace
    IN /\ \A ev \in { t[i] : i \in 1..Len(t) } : Count(t, ev) = 1
       /\ Before(t, "normalize", "detect")
       /\ Before(t, "detect", "translate.call")
       /\ Before(t, "translate.call", "translate.return")
       /\ Before(t, "translate.call", "translate.throw")
       /\ Before(t, "translate.return", "postprocess")
       /\ Before(t, "postprocess", "extract.begin")
       /\ Before(t, "extract.begin", "llm.call")
       /\ Before(t, "extract.begin", "fallback")
       /\ Before(t, "extract.begin", "extract.end")
       /\ Has(t, "extract.end") =>
            /\ Has(t, "fallback") \/ Has(t, "llm.return")
            /\ Has(t, "fallback") => Pos(t, "fallback") < Pos(t, "extract.end")
            /\ Has(t, "llm.return") => Pos(t, "llm.return") < Pos(t, "extract.end")
       /\ Before(t, "extract.end", "store.call")
       /\ Before(t, "store.call", "store.return")
       /\ Before(t, "store.call", "store.throw")
       /\ (Has(t, "store.call") /\ Has(t, "respond")) =>
            \E i \in 1..Len(t) : t[i] \in {"store.return", "store.throw"} /\ i < Pos(t, "respond")
       /\ Has(t, "respond") <=> Finished(r)
       /\ Has(t, "respond") => t[Len(t)] = "respond"

C6_Witness ==
  \E r \in DOMAIN runs :
    runs[r].trace = <<"normalize", "detect", "translate.call", "translate.return", "postprocess",
                      "extract.begin", "llm.call", "llm.return", "extract.end", "store.call",
                      "store.return", "respond">>

\* C7: without an LLM key the LLM is never called and the extraction result
\* is the fallback's; when the LLM call returned JSON its result is the
\* extraction result and the fallback is not run; the fallback runs at most
\* once, and only when there is no key or the LLM call failed.
C7_StrategiesExclusive ==
  \A r \in DOMAIN runs :
    LET t == runs[r].trace
    IN /\ ~openaiKey =>
            /\ ~Has(t, "llm.call") /\ runs[r].llm.kind = "none"
            /\ Has(t, "extract.end") =>
                 Has(t, "fallback") /\ runs[r].extractedDetails = fallbackOf[runs[r].reply]
       /\ runs[r].llm.kind = "json" =>
            /\ ~Has(t, "fallback")
            /\ runs[r].extractedDetails = [success |-> TRUE, details |-> runs[r].llm.details]
       /\ Count(t, "fallback") <= 1
       /\ Has(t, "fallback") => (~openaiKey \/ runs[r].llm.kind \in {"threw", "malformed"})
       /\ (Has(t, "extract.end") /\ runs[r].llm.kind \in {"threw", "malformed"}) => Has(t, "fallback")

C7_Witness ==
  \E r \in DOMAIN runs :
    /\ openaiKey /\ Finished(r)
    /\ runs[r].llm.kind = "json" /\ ~runs[r].llm.details.isNull
    /\ ~Has(runs[r].trace, "fallback")
    /\ runs[r].response.extracted_details.details.title = JsStr("Silk Saree")

C10_DetectionNeverFails ==
  \A r \in DOMAIN runs :
    (runs[r].pc # "idle" /\ runs[r].franc = FrancThrows) =>
      /\ ValidBody(runs[r].transcription)
      /\ runs[r].detectedLanguage = "ta"
      /\ Has(runs[r].trace, "translate.call")
      /\ Finished(r) =>
           /\ runs[r].response.detected_language = "ta"
           /\ runs[r].response.status # 200 => Has(runs[r].trace, "translate.throw")

C10_Witness ==
  \E r \in DOMAIN runs :
    /\ runs[r].franc = FrancThrows
    /\ runs[r].transcription.text = "kya hai"
    /\ Has(runs[r].trace, "translate.return")
    /\ runs[r].detectedLanguage = "ta"

(***************************************************************************)
(* The normalizer and the detector run on their own (routes.ts 184-247),   *)
(* over texts made of the markers of the pattern lists                     *)
(***************************************************************************)
\* number of markers in a text of one language
MaxMarkers == 2

\* every code the detector's table knows, two it does not, and an exception
FrancCodes == {"tam", "tel", "hin", "mal", "kan", "mar", "eng", "und", FrancThrows}

AltsOf(patterns) == UNION { { patterns[k][j] : j \in 1..Len(patterns[k]) } : k \in 1..Len(patterns) }

\* a text an alternative matches
Sample(alt) == IF alt.star THEN alt.pre \o " x " \o alt.suf ELSE alt.pre

Markers(patterns) == { Sample(alt) : alt \in AltsOf(patterns) }

\* the markers in Latin script
LatinMarkers(patterns) == { m \in Markers(patterns) : CharAt(m, 1) # "<" }

RECURSIVE toUpperCase(_)
toUpperCase(s) ==
  IF s = "" THEN ""
  ELSE UpperChar(CharAt(s, 1)) \o toUpperCase(SubSeq(s, 2, Len(s)))

\* the texts of one to n words, separated by blanks
RECURSIVE Phrases(_, _)
Phrases(words, n) ==
  IF n <= 1 THEN words
  ELSE Phrases(words, n - 1) \cup { ph \o " " \o w : ph \in Phrases(words, n - 1), w \in words }

PatternsOf == [ta |-> tamilPatterns, hi |-> hindiPatterns, te |-> teluguPatterns]
PatternLanguages == {"ta", "hi", "te"}

\* texts of markers of one language: every marker alone, in lower and upper
\* case, and the phrases of Latin-script markers
OneLanguageTexts(lang) ==
  Markers(PatternsOf[lang])
    \cup { toUpperCase(m) : m \in Markers(PatternsOf[lang]) }
    \cup Phrases(LatinMarkers(PatternsOf[lang]), MaxMarkers)

\* texts with one marker of each of two languages
TwoLanguageTexts(la, lb) ==
  { a \o " " \o b : a \in LatinMarkers(PatternsOf[la]), b \in LatinMarkers(PatternsOf[lb]) }

DetectTexts ==
  UNION { { [text |-> t, langs |-> {lang}] : t \in OneLanguageTexts(lang) } : lang \in PatternLanguages } \cup
  UNION { { [text |-> t, langs |-> {pair[1], pair[2]}] : t \in TwoLanguageTexts(pair[1], pair[2]) } :
            pair \in { pr \in PatternLanguages \X PatternLanguages : pr[1] # pr[2] } } \cup
  { [text |-> t, langs |-> {}] : t \in {"hello", "two apples"} }

InitDetect ==
  /\ runs = [r \in 1..MaxReq |-> IdleRun]
  /\ products = <<>>
  /\ now = 0
  /\ openaiKey = FALSE
  /\ arg \in { [fn |-> "detect", transcription |-> t.text, langs |-> t.langs, detected |-> d] :
                 t \in DetectTexts, d \in FrancCodes }
  /\ result = NoCall

\* lines 184-247 applied to arg.transcription, franc doing arg.detected
Detect ==
  /\ arg.fn = "detect"
  /\ result = NoCall
  /\ result' = [fn |-> "detect",
                processedTranscription |-> processedTranscription(arg.transcription),
                detectedLanguage |->
                  detectedLanguage(processedTranscription(arg.transcription), arg.detected)]
  /\ UNCHANGED <<runs, products, now, openaiKey, arg>>

NextDetect == Detect

SpecDetect == InitDetect /\ [][NextDetect]_vars

\* the first of the languages, in the order Tamil, Hindi, Telugu
FirstLanguage(langs) == IF "ta" \in langs THEN "ta" ELSE IF "hi" \in langs THEN "hi" ELSE "te"

\* C9: whatever code franc returns, a text made only of markers of one of
\* Tamil, Hindi, Telugu is detected as that language, and a text with markers
\* of two of them as the one that comes first in the order Tamil, Hindi, Telugu.
C9_PatternsOverrideFranc ==
  (result.fn = "detect" /\ arg.detected # FrancThrows /\ arg.langs # {}) =>
    result.detectedLanguage = FirstLanguage(arg.langs)

C9_Witness ==
  /\ result.fn = "detect"
  /\ arg.langs = {"hi", "te"}
  /\ arg.detected = "tam"
  /\ result.detectedLanguage = "hi"

(***************************************************************************)
(* The normalizer run on its own, once and then again on its own output    *)
(* (routes.ts 187-191)                                                     *)
(***************************************************************************)
\* number of pieces a transcript is put together from
MaxPieces == 2

\* what the rules match, what they write, and parts of both
NormalizePieces == {"purawai", "buddha way", "budha way", "pudavai", "ainurubai", "ainuru", "ainu",
                    "bai", "nu bai", "500 rupai", "in the", "inthe", "intha", "in", " the", "th",
                    "way", "WAY", "vai", "wa", "y", " ", "x", "\n"}

\* the texts of one to n pieces, written one after the other
RECURSIVE Concats(_, _)
Concats(pieces, n) ==
  IF n <= 1 THEN pieces
  ELSE Concats(pieces, n - 1) \cup { t \o p : t \in Concats(pieces, n - 1), p \in pieces }

NormalizeTexts == Concats(NormalizePieces, MaxPieces)

InitNormalize ==
  /\ runs = [r \in 1..MaxReq |-> IdleRun]
  /\ products = <<>>
  /\ now = 0
  /\ openaiKey = FALSE
  /\ arg \in { [fn |-> "normalize", transcription |-> t] : t \in NormalizeTexts }
  /\ result = NoCall

\* lines 187-191 applied to arg.transcription
Normalize ==
  /\ arg.fn = "normalize"
  /\ result = NoCall
  /\ result' = [fn |-> "normalize", processedTranscription |-> processedTranscription(arg.transcription)]
  /\ UNCHANGED <<runs, products, now, openaiKey, arg>>

\* lines 187-191 applied to what they returned
NormalizeAgain ==
  /\ arg.fn = "normalize"
  /\ result.fn = "normalize"
  /\ arg' = [arg EXCEPT !.transcription = result.processedTranscription]
  /\ result' = [fn |-> "normalized twice",
                processedTranscription |-> processedTranscription(result.processedTranscription)]
  /\ UNCHANGED <<runs, products, now, openaiKey>>

NextNormalize == Normalize \/ NormalizeAgain

SpecNormalize == InitNormalize /\ [][NextNormalize]_vars

\* C11: normalizing a normalized transcript changes nothing: the second
\* application of the normalizer returns its argument.
C11_NormalizeIdempotent ==
  result.fn = "normalized twice" => result.processedTranscription = arg.transcription

(***************************************************************************)
(* The fallback extractor run on its own (routes.ts 353-443), over texts   *)
(* put together from words, numbers and keywords whose reading is known    *)
(***************************************************************************)
\* number of tokens in a text the title is taken from
MaxTokens == 4

\* a token, whether it is short (length <= 2) or a stop-word in some letter
\* case, and the token with its first character in upper case
TitleWords == {
  [word |-> "the", drop |-> TRUE, cap |-> "The"],
  [word |-> "Rupees", drop |-> TRUE, cap |-> "Rupees"],
  [word |-> "kg", drop |-> TRUE, cap |-> "Kg"],
  [word |-> "saree", drop |-> FALSE, cap |-> "Saree"],
  [word |-> "Silk", drop |-> FALSE, cap |-> "Silk"],
  [word |-> "500", drop |-> FALSE, cap |-> "500"] }

StopWordTokens == <<
  [word |-> "is", drop |-> TRUE, cap |-> "Is"],
  [word |-> "the", drop |-> TRUE, cap |-> "The"],
  [word |-> "and", drop |-> TRUE, cap |-> "And"],
  [word |-> "or", drop |-> TRUE, cap |-> "Or"] >>

TokenSeqs(n) == UNION { [1..k -> TitleWords] : k \in 0..n } \cup {StopWordTokens}

WordsOf(tokens) == [k \in 1..Len(tokens) |-> tokens[k].word]

\* the tokens separated by one blank, or by several kinds of whitespace
\* with whitespace around the text
Layouts == {"plain", "ragged"}

Layout(tokens, layout) ==
  IF layout = "plain" THEN Join(WordsOf(tokens), " ")
  ELSE " " \o Join(WordsOf(tokens), "\t \n") \o "  "

NoNumeral == [text |-> "", value |-> JsNull]

ExtractArg(family, text, tokens, numeral) ==
  [fn |-> "extract", family |-> family, text |-> text, other |-> toUpperCase(text),
   tokens |-> tokens, numeral |-> numeral]

TitleArgs ==
  { ExtractArg("title", Layout(tokens, layout), tokens, NoNumeral) :
      tokens \in TokenSeqs(MaxTokens), layout \in Layouts }

\* numbers as a price may be written, with their values
PriceNumerals == {
  [text |-> "500", value |-> JsInt(500)],
  [text |-> "0", value |-> JsInt(0)],
  [text |-> "1,500", value |-> JsInt(1500)],
  [text |-> "1,234,567", value |-> JsInt(1234567)],
  [text |-> "500.50", value |-> JsNum(50050, 2)],
  [text |-> "1,500.75", value |-> JsNum(150075, 2)],
  [text |-> "99.5", value |-> JsNum(995, 1)] }

\* the currency keywords, in the letter cases a text may have them
CurrencyTokens == {"rupees", "Rupees", "dollars", "inr", "INR", "usd", "<Rs>", "$"}

\* texts in which no number is followed by a currency keyword
NoPriceTexts == {"a nice saree", "saree 500", "rupees 500", "<Rs>500", "500 kg", "500 per kg"}

PriceArgs ==
  { ExtractArg("price", prefix \o n.text \o sep \o k \o suffix, <<>>, n) :
      prefix \in {"", "this saree costs "}, n \in PriceNumerals, sep \in {"", " "},
      k \in CurrencyTokens, suffix \in {"", " only"} }
    \cup { ExtractArg("price", t, <<>>, NoNumeral) : t \in NoPriceTexts }

\* numbers as a quantity may be written, with their values
QuantityNumerals == {
  [text |-> "2", value |-> JsInt(2)],
  [text |-> "10", value |-> JsInt(10)],
  [text |-> "2.5", value |-> JsNum(25, 1)],
  [text |-> "0.75", value |-> JsNum(75, 2)],
  [text |-> "12.125", value |-> JsNum(12125, 3)] }

UnitTokens == {"kg", "KG", "gram", "grams", "liters", "ml", "pieces", "pcs", "units", "pack",
               "bottle", "jar"}

\* texts in which no number is followed by a unit keyword
NoQuantityTexts == {"some rice", "rice 2", "kg 2", "2 rupees", "500 rupees per kg"}

QuantityArgs ==
  { ExtractArg("quantity", prefix \o n.text \o sep \o k \o suffix, <<>>, n) :
      prefix \in {"", "rice "}, n \in QuantityNumerals, sep \in {"", " "},
      k \in UnitTokens, suffix \in {"", " rice"} }
    \cup { ExtractArg("quantity", t, <<>>, NoNumeral) : t \in NoQuantityTexts }

Labels == 1..Len(ecommerceCategories)

KeywordsOf(k) == { ecommerceCategories[k].keywords[j] : j \in 1..Len(ecommerceCategories[k].keywords) }

\* every keyword alone, the first keywords of two labels side by side, and
\* texts with no keyword, with a keyword inside a longer word, in mixed case
CategoryTexts ==
  UNION { KeywordsOf(k) : k \in Labels }
    \cup { ecommerceCategories[pair[1]].keywords[1] \o " " \o ecommerceCategories[pair[2]].keywords[1] :
             pair \in { pr \in Labels \X Labels : pr[1] # pr[2] } }
    \cup {"hello", "a nice thing", "price 500", "sandal", "Fresh ORGANIC Turmeric",
          "fresh organic turmeric", "Rice and Turmeric", "SILK Saree"}

CategoryArgs == { ExtractArg("category", t, <<>>, NoNumeral) : t \in CategoryTexts }

\* what a description is written about, and the amount that may follow
DescriptionLeads == {"handmade soap", "natural honey", "organic turmeric", "fresh handmade soap",
                     "fresh milk", "fresh turmeric", "onion", "apple", "coconut oil", "turmeric",
                     "saree", "thing"}

DescriptionTails == {"", " 500 rupees", " 99.50 rupees", " 0 rupees"}

DescriptionArgs ==
  { ExtractArg("description", lead \o tail, <<>>, NoNumeral) :
      lead \in DescriptionLeads, tail \in DescriptionTails }

ExtractArgs == TitleArgs \cup PriceArgs \cup QuantityArgs \cup CategoryArgs \cup DescriptionArgs

InitExtract ==
  /\ runs = [r \in 1..MaxReq |-> IdleRun]
  /\ products = <<>>
  /\ now = 0
  /\ openaiKey = FALSE
  /\ arg \in ExtractArgs
  /\ result = NoCall

\* extractWithPatterns(arg.text), and the category extractWithPatterns gives
\* the same text in another letter case
Extract ==
  /\ arg.fn = "extract"
  /\ result = NoCall
  /\ result' = [fn |-> "extract", extracted |-> extractWithPatterns(arg.text),
                recased |-> extractWithPatterns(arg.other).details.category]
  /\ UNCHANGED <<runs, products, now, openaiKey, arg>>

NextExtract == Extract

SpecExtract == InitExtract /\ [][NextExtract]_vars

KeptToken(token) == ~token.drop

\* the first three tokens that are neither short nor stop-words, joined by
\* single blanks, the first character in upper case; "Product" when there is none
ExpectedTitle(tokens) ==
  LET kept == SelectSeq(tokens, KeptToken)
      n == IF Len(kept) < 3 THEN Len(kept) ELSE 3
  IN IF n = 0 THEN "Product"
     ELSE Join([k \in 1..n |-> IF k = 1 THEN kept[k].cap ELSE kept[k].word], " ")

\* C12: the fallback title is a non-empty string; for a text of known tokens
\* it is the first three tokens left after dropping those of length <= 2 and
\* the stop-words in any letter case, joined by single blanks with the first
\* character in upper case, and "Product" when no token is left.
C12_FallbackTitle ==
  result.fn = "extract" =>
    /\ result.extracted.details.title.t = "string"
    /\ result.extracted.details.title.s # ""
    /\ arg.family = "title" => result.extracted.details.title.s = ExpectedTitle(arg.tokens)
    /\ arg.tokens = StopWordTokens => result.extracted.details.title.s = "Product"

C12_Witness ==
  /\ result.fn = "extract"
  /\ arg.family = "title"
  /\ WordsOf(arg.tokens) = <<"the", "saree", "Silk", "500">>
  /\ result.extracted.details.title = JsStr("Saree Silk 500")

\* C13: the fallback price of a text in which a number is followed by a
\* currency keyword is the value of that number, its thousands separators
\* stripped; the price of a text with no such number is null.
C13_FallbackPrice ==
  (result.fn = "extract" /\ arg.family = "price") =>
    result.extracted.details.price = arg.numeral.value

\* C14: the fallback quantity of a text in which a number is followed by a
\* unit keyword is the value of that number; the quantity of a text with no
\* such number is 1.
C14_FallbackQuantity ==
  (result.fn = "extract" /\ arg.family = "quantity") =>
    result.extracted.details.quantity =
      (IF arg.numeral = NoNumeral THEN JsInt(1) ELSE arg.numeral.value)

C14_Witness ==
  /\ result.fn = "extract"
  /\ arg.text = "rice 2.5 kg"
  /\ result.extracted.details.quantity = JsNum(25, 1)

\* C15: two texts that are equal after lowercasing get the same fallback
\* category; "Fresh ORGANIC Turmeric" and "fresh organic turmeric" both get
\* "Food & Beverages > Spices".
C15_CategoryIgnoresCase ==
  result.fn = "extract" =>
    /\ toLowerCase(arg.text) = toLowerCase(arg.other) =>
         result.extracted.details.category = result.recased
    /\ arg.text \in {"Fresh ORGANIC Turmeric", "fresh organic turmeric"} =>
         result.extracted.details.category = JsStr("Food & Beverages > Spices")

C15_Witness ==
  /\ result.fn = "extract"
  /\ arg.text = "Fresh ORGANIC Turmeric"
  /\ arg.other = "FRESH ORGANIC TURMERIC"
  /\ result.recased = JsStr("Food & Beverages > Spices")
  /\ result.extracted.details.category = JsStr("Food & Beverages > Spices")

\* the labels that have a keyword occurring in the lower-cased text
LabelHits(text) == { k \in Labels : \E w \in KeywordsOf(k) : includes(toLowerCase(text), w) }

\* C16: the fallback category is the label of the first entry of the table
\* that has a keyword occurring in the lower-cased text, and "General" when
\* no entry has one; a text with keywords of two labels gets the earlier label.
C16_FirstLabelWins ==
  result.fn = "extract" =>
    LET hits == LabelHits(arg.text)
        cat == result.extracted.details.category
    IN /\ cat.t = "string"
       /\ cat.s \in { ecommerceCategories[k].cat : k \in Labels } \cup {"General"}
       /\ hits = {} => cat.s = "General"
       /\ hits # {} => \E k \in hits : /\ cat.s = ecommerceCategories[k].cat
                                      /\ \A j \in hits : k <= j
       /\ arg.text \in {"rice turmeric", "turmeric rice"} => cat.s = "Food & Beverages > Spices"
       /\ arg.text = "hello" => cat.s = "General"

C16_Witness ==
  /\ result.fn = "extract"
  /\ arg.text = "rice turmeric"
  /\ LabelHits(arg.text) = {4, 6}
  /\ result.extracted.details.category = JsStr("Food & Beverages > Spices")

\* C17: the result of the fallback extractor has success = true and details
\* whose title and description are non-empty strings, whose category is a
\* non-empty string and whose quantity is a number; the price is a number or null.
C17_FallbackWellFormed ==
  result.fn = "extract" =>
    /\ result.extracted.success
    /\ ~result.extracted.details.isNull
    /\ result.extracted.details.title.t = "string" /\ result.extracted.details.title.s # ""
    /\ result.extracted.details.description.t = "string"
    /\ result.extracted.details.description.s # ""
    /\ result.extracted.details.category.t = "string" /\ result.extracted.details.category.s # ""
    /\ result.extracted.details.quantity.t = "number"
    /\ result.extracted.details.price.t \in {"number", "null"}

C17_Witness ==
  /\ result.fn = "extract"
  /\ arg.text = ""
  /\ result.extracted.success
  /\ result.extracted.details.title = JsStr("Product")
  /\ result.extracted.details.price = JsNull
  /\ result.extracted.details.quantity = JsInt(1)
  /\ result.extracted.details.category = JsStr("General")

(***************************************************************************)
(* The pipeline with exceptions raised inside the try block of             *)
(* extractWithPatterns (routes.ts 354-434) and caught by its catch block   *)
(* (435-442).  No step of the try block throws on a string by itself; the  *)
(* exceptions are those the runtime raises while the steps run.            *)
(***************************************************************************)
\* error.message of such an exception
ExtractorErrors == {"Invalid string length", "Maximum call stack size exceeded"}

\* the catch block with the message left out of the result
extractWithPatternsCaught_NoMessage(message) ==
  [success |-> FALSE, error |-> "Failed to extract details", details |-> JsNull]

\* lines 435-442: what extractWithPatterns returns when the exception is caught;
\* details is the string error.message
extractWithPatternsCaught(message) ==
  [success |-> FALSE, error |-> "Failed to extract details", details |-> JsStr(message)]

\* TranslateReturns with no key configured (lines 251-270, 347-349), the
\* fallback extractor raising and catching an exception
TranslateReturnsFallbackThrows(r, text, message) ==
  /\ runs[r].pc = "translate"
  /\ ~openaiKey
  /\ LET run == [runs[r] EXCEPT !.reply = text, !.translatedText = translatedOf[text],
                                !.thrown = message]
         events == <<"translate.return", "postprocess", "extract.begin", "fallback", "fallback.throw">>
     IN runs' = [runs EXCEPT ![r] = AfterExtraction(run, extractWithPatternsCaught(message), events)]
  /\ UNCHANGED <<products, now, openaiKey, arg, result>>

\* LlmThrows, and LlmReturns with a reply that is not JSON (lines 335-349),
\* the fallback extractor raising and catching an exception
LlmFailsFallbackThrows(r, reply, message) ==
  /\ runs[r].pc = "llm"
  /\ reply.kind \in {"threw", "malformed"}
  /\ runs' = [runs EXCEPT ![r] =
       AfterExtraction([runs[r] EXCEPT !.llm = reply, !.thrown = message],
                       extractWithPatternsCaught(message),
                       <<IF reply.kind = "threw" THEN "llm.throw" ELSE "llm.return",
                         "fallback", "fallback.throw">>)]
  /\ UNCHANGED <<products, now, openaiKey, arg, result>>

NextCaught ==
  \/ Next
  \/ \E r \in DOMAIN runs, text \in TranslatorReplies, message \in ExtractorErrors :
       TranslateReturnsFallbackThrows(r, text, message)
  \/ \E r \in DOMAIN runs, reply \in LlmReplies \cup {LlmThrew}, message \in ExtractorErrors :
       LlmFailsFallbackThrows(r, reply, message)

SpecCaught == Init /\ [][NextCaught]_vars

\* C18 as stated: when the fallback extractor throws, the extraction result
\* is {success: false, error: <the raw error message>}, the response is a
\* success response carrying it and no catalog entry is created.
C18_FallbackErrorAsStated ==
  \A r \in DOMAIN runs :
    (Finished(r) /\ Has(runs[r].trace, "fallback.throw")) =>
      /\ runs[r].response.status = 200
      /\ ~runs[r].response.extracted_details.success
      /\ runs[r].response.extracted_details.error = runs[r].thrown
      /\ runs[r].response.product_created.isNull
      /\ ~Has(runs[r].trace, "store.call")

\* C18, amended: when the fallback extractor throws, the extraction result is
\* {success: false, error: "Failed to extract details", details: <the raw
\* error message>}, the response is a success response carrying it and no
\* catalog entry is created.
C18_FallbackError ==
  \A r \in DOMAIN runs :
    (Finished(r) /\ Has(runs[r].trace, "fallback.throw")) =>
      /\ runs[r].response.status = 200
      /\ ~runs[r].response.extracted_details.success
      /\ runs[r].response.extracted_details.error = "Failed to extract details"
      /\ runs[r].response.extracted_details.details = JsStr(runs[r].thrown)
      /\ runs[r].response.translated_text = translatedOf[runs[r].reply]
      /\ runs[r].response.product_created.isNull
      /\ ~Has(runs[r].trace, "store.call")

C18_Witness ==
  \E r \in DOMAIN runs :
    /\ Finished(r)
    /\ runs[r].llm = LlmThrew
    /\ Has(runs[r].trace, "fallback.throw")
    /\ runs[r].thrown = "Invalid string length"
    /\ runs[r].response.status = 200

(***************************************************************************)
(* The post-processor run on its own, once and then again on its own       *)
(* output (routes.ts 257-265), over translations that name an amount       *)
(***************************************************************************)
\* what comes before the amount, as translated and in canonical form
PostPrefixes == {
  [text |-> "", canonical |-> ""],
  [text |-> "saree ", canonical |-> "saree "],
  [text |-> "pudavai ", canonical |-> "saree "],
  [text |-> "Purawai ", canonical |-> "saree "] }

\* the number of the amount with the whitespace that follows it
PostNumbers == {
  [text |-> "", canonical |-> ""],
  [text |-> "500 ", canonical |-> "500 "],
  [text |-> "500", canonical |-> "500 "],
  [text |-> "1500  ", canonical |-> "1500 "],
  [text |-> "20\t", canonical |-> "20 "] }

\* the spellings of the currency unit
CurrencySpellings == {"rupai", "rupee", "rupees", "Rupai", "Rupee", "RUPEES"}

PostArgs ==
  { [fn |-> "postProcess", text |-> pre.text \o n.text \o c,
     canonical |-> pre.canonical \o n.canonical \o "rupees"] :
      pre \in PostPrefixes, n \in PostNumbers, c \in CurrencySpellings }

InitPost ==
  /\ runs = [r \in 1..MaxReq |-> IdleRun]
  /\ products = <<>>
  /\ now = 0
  /\ openaiKey = FALSE
  /\ arg \in PostArgs
  /\ result = NoCall

\* lines 257-265 applied to arg.text
PostProcess ==
  /\ arg.fn = "postProcess"
  /\ result = NoCall
  /\ result' = [fn |-> "postProcess", translatedText |-> postProcess(arg.text)]
  /\ UNCHANGED <<runs, products, now, openaiKey, arg>>

\* lines 257-265 applied to what they returned
PostProcessAgain ==
  /\ arg.fn = "postProcess"
  /\ result.fn = "postProcess"
  /\ arg' = [arg EXCEPT !.text = result.translatedText]
  /\ result' = [fn |-> "postProcessed twice", translatedText |-> postProcess(result.translatedText)]
  /\ UNCHANGED <<runs, products, now, openaiKey>>

NextPost == PostProcess \/ PostProcessAgain

SpecPost == InitPost /\ [][NextPost]_vars

\* C19: post-processing writes every spelling of the currency unit as
\* "rupees", the garment noun as "saree" and the amount as "<number> rupees";
\* post-processing its own output again changes nothing.
C19_PostProcessCanonical ==
  /\ result.fn = "postProcess" => result.translatedText = arg.canonical
  /\ result.fn = "postProcessed twice" => result.translatedText = arg.text

(***************************************************************************)
(* The catalog entry of a pipeline run                                     *)
(***************************************************************************)
\* the run's response carries a created entry
Created(r) == ~runs[r].response.product_created.isNull

\* the extraction reported success with details and the storage write returned
ExtractedAndStored(r) ==
  /\ runs[r].response.extracted_details.success
  /\ ~runs[r].response.extracted_details.details.isNull
  /\ Has(runs[r].trace, "store.return")

\* C20 as stated: a finished run has created an entry exactly when extraction
\* succeeded with details and the storage write succeeded, it has written to
\* the store at most once, and the entry's title, description, category,
\* price and quantity equal those of the extraction result.
C20_EntryEqualsExtractionAsStated ==
  \A r \in DOMAIN runs :
    Finished(r) /\ runs[r].response.status = 200 =>
      /\ Created(r) <=> ExtractedAndStored(r)
      /\ Count(runs[r].trace, "store.return") <= 1
      /\ Created(r) =>
           LET entry == runs[r].response.product_created
               details == runs[r].response.extracted_details.details
           IN /\ entry.title = details.title
              /\ entry.description = details.description
              /\ entry.category = details.category
              /\ entry.price = details.price
              /\ entry.quantity = details.quantity

\* C20, amended: a finished run has created an entry exactly when extraction
\* succeeded with details and the storage write succeeded, it has written to
\* the store at most once, and the entry has the title, description and
\* category of the extraction result where these are non-empty, its price
\* and quantity where these are numbers, and otherwise "Voice Extracted
\* Product", "Product mentioned: <translated text>", "General", null and 1;
\* its identifier and timestamp are those the store generated.
C20_EntryFromExtraction ==
  \A r \in DOMAIN runs :
    Finished(r) /\ runs[r].response.status = 200 =>
      /\ Created(r) <=> ExtractedAndStored(r)
      /\ Count(runs[r].trace, "store.return") <= 1
      /\ Count(runs[r].trace, "store.call") <= 1
      /\ Created(r) =>
           LET entry == runs[r].response.product_created
               details == runs[r].response.extracted_details.details
           IN /\ entry.title = IF Truthy(details.title) THEN details.title
                               ELSE JsStr("Voice Extracted Product")
              /\ entry.description =
                   IF Truthy(details.description) THEN details.description
                   ELSE JsStr("Product mentioned: " \o runs[r].response.translated_text)
              /\ entry.category = IF Truthy(details.category) THEN details.category
                                  ELSE JsStr("General")
              /\ entry.price = IF details.price.t = "number" THEN details.price ELSE JsNull
              /\ entry.quantity = IF details.quantity.t = "number" THEN details.quantity
                                  ELSE JsInt(1)
              /\ entry.id \in DOMAIN products
              /\ entry.last_updated = entry.id[1]
              /\ entry.last_updated <= now

C20_Witness ==
  \E r \in DOMAIN runs :
    /\ Finished(r)
    /\ Created(r)
    /\ runs[r].llm.kind = "json"
    /\ runs[r].response.extracted_details.details.title = JsUndefined
    /\ runs[r].response.product_created.title = JsStr("Voice Extracted Product")
    /\ runs[r].response.product_created.id \in DOMAIN products

(***************************************************************************)
(* The detector on texts no pattern matches, and with franc throwing       *)
(***************************************************************************)
\* C23: for a text no pattern matches, the detected language is "ta" for the
\* guess tam, "te" for tel, "hi" for hin, "ml" for mal, "kn" for kan, "mr"
\* for mar and the default "ta" for every other outcome of franc; the
\* detected language is always one of these six codes.
C23_TableThenDefault ==
  result.fn = "detect" =>
    /\ result.detectedLanguage \in {"ta", "te", "hi", "ml", "kn", "mr"}
    /\ arg.langs = {} =>
         result.detectedLanguage =
           CASE arg.detected = "tam" -> "ta"
             [] arg.detected = "tel" -> "te"
             [] arg.detected = "hin" -> "hi"
             [] arg.detected = "mal" -> "ml"
             [] arg.detected = "kan" -> "kn"
             [] arg.detected = "mar" -> "mr"
             [] OTHER -> "ta"

C23_Witness ==
  /\ result.fn = "detect"
  /\ arg.transcription = "two apples"
  /\ arg.langs = {}
  /\ arg.detected = "mal"
  /\ result.detectedLanguage = "ml"

\* C29: when franc throws, the detected language is the default "ta", also
\* for a text that matches only Hindi or only Telugu patterns.
C29_FrancThrowSkipsPatterns ==
  (result.fn = "detect" /\ arg.detected = FrancThrows) => result.detectedLanguage = "ta"

C29_Witness ==
  /\ result.fn = "detect"
  /\ arg.detected = FrancThrows
  /\ arg.langs = {"te"}
  /\ SomePattern(teluguPatterns, result.processedTranscription)
  /\ ~SomePattern(tamilPatterns, result.processedTranscription)
  /\ result.detectedLanguage = "ta"

(***************************************************************************)
(* The description of the fallback extractor                               *)
(***************************************************************************)
\* the words a template opens with, by the first branch that applies
Opening(text, cat) ==
  LET lowerText == toLowerCase(text)
  IN IF includes(lowerText, "handmade") \/ includes(lowerText, "natural") \/ includes(lowerText, "organic")
     THEN "Premium handcrafted "
     ELSE IF \/ includes(lowerText, "fresh")
             \/ cat \in {"Food & Beverages > Vegetables", "Food & Beverages > Fruits"}
     THEN "Fresh "
     ELSE IF cat \in {"Food & Beverages > Oils", "Food & Beverages > Spices"}
     THEN "Pure "
     ELSE "High-quality "

\* the part of a category label after " > ", the label itself when it has none
SubLabel(cat) ==
  CASE cat = "General" -> "general"
    [] cat = "Food & Beverages > Spices" -> "spices"
    [] cat = "Food & Beverages > Oils" -> "oils"
    [] cat = "Food & Beverages > Vegetables" -> "vegetables"
    [] cat = "Food & Beverages > Fruits" -> "fruits"
    [] cat = "Health & Beauty > Soap" -> "soap"
    [] cat = "Clothing & Accessories > Women" -> "women"
    [] OTHER -> toLowerCase(subCategory(cat))

\* C24 as stated: the template is that of the first branch that applies, and
\* every description contains the title, the subcategory and, whenever the
\* price is a number, the price.
C24_DescriptionAsStated ==
  result.fn = "extract" =>
    LET details == result.extracted.details
        desc == details.description.s
        open == Opening(arg.text, details.category.s)
    IN /\ LitAt(desc, 1, open \o toLowerCase(details.title.s) \o " ")
       /\ includes(desc, SubLabel(details.category.s))
       /\ details.price.t = "number" => includes(desc, "<Rs>" \o NumToString(details.price))

\* C24, amended: the template is that of the first branch that applies;
\* every description contains the lower-cased title, and the price exactly
\* when the price is a number other than zero; the generic description
\* contains the subcategory.
C24_Description ==
  result.fn = "extract" =>
    LET details == result.extracted.details
        desc == details.description.s
        open == Opening(arg.text, details.category.s)
    IN /\ LitAt(desc, 1, open \o toLowerCase(details.title.s) \o " ")
       /\ open = "High-quality " =>
            includes(desc, "Excellent " \o SubLabel(details.category.s) \o " item")
       /\ (details.price.t = "number" /\ details.price # JsInt(0)) =>
            includes(desc, "<Rs>" \o NumToString(details.price))
       /\ (details.price.t = "null" \/ details.price = JsInt(0)) => ~includes(desc, "<Rs>")

C24_Witness ==
  /\ result.fn = "extract"
  /\ arg.text = "fresh handmade soap 99.50 rupees"
  /\ result.extracted.details.description =
       JsStr("Premium handcrafted fresh handmade soap made with natural ingredients. Perfect for daily use at just <Rs>99.5. Authentic quality product sourced directly from artisans.")

(***************************************************************************)
(* The fields of an auto-created catalog entry                             *)
(***************************************************************************)
\* a string other than the empty one
NonEmptyString(v) == v.t = "string" /\ v.s # ""

\* C30: every entry a run has created has a non-empty title, a non-empty
\* description and a non-empty category, a price that is a number or null,
\* and a quantity that is a number, 1 when the details carry no numeric
\* quantity.
C30_EntryWellFormed ==
  \A r \in DOMAIN runs :
    Finished(r) /\ Created(r) =>
      LET entry == runs[r].response.product_created
          details == runs[r].response.extracted_details.details
      IN /\ NonEmptyString(entry.title)
         /\ NonEmptyString(entry.description)
         /\ NonEmptyString(entry.category)
         /\ entry.price.t \in {"number", "null"}
         /\ entry.quantity.t = "number"
         /\ details.quantity.t # "number" => entry.quantity = JsInt(1)
         /\ products[entry.id] = entry

(***************************************************************************)
(* MemStorage (storage.ts) behind the product routes (routes.ts 470-576)   *)
(*                                                                         *)
(* The file holds two versions of the class: one numbers the products with *)
(* currentProductId, the other names them "uuid-<ms>-<random>".  A build   *)
(* has one of them, result.store says which.  Identifiers are written as   *)
(* tuples: <<n>> for the number n, <<ms, rnd>> for a uuid string.          *)
(***************************************************************************)
MaxCalls == 3

StoreVersions == {"counter", "uuid"}

\* the number n as an identifier
CounterId(n) == <<n>>

\* { ...a, ...b }
Spread(a, b) == [f \in DOMAIN a \cup DOMAIN b |-> IF f \in DOMAIN b THEN b[f] ELSE a[f]]

\* obj.field ?? dflt
FieldOr(obj, field, dflt) ==
  IF field \in DOMAIN obj /\ obj[field].t \notin {"undefined", "null"} THEN obj[field] ELSE dflt

\* lines 80-94, the counter version; the caller advances currentProductId
createProductCounter(insertProduct, currentProductId, ms) ==
  Spread(insertProduct,
         [id |-> CounterId(currentProductId), createdAt |-> ms, updatedAt |-> ms,
          status |-> FieldOr(insertProduct, "status", JsStr("draft")),
          currency |-> FieldOr(insertProduct, "currency", JsStr("INR")),
          confidence |-> FieldOr(insertProduct, "confidence", JsNull),
          tags |-> IF "tags" \in DOMAIN insertProduct THEN insertProduct.tags ELSE <<>>])

\* this.products.get(id); NoProduct stands for undefined
getProduct(map, id) == IF id \in DOMAIN map THEN map[id] ELSE NoProduct

\* lines 112-126 and 256-270; stamp is [updatedAt |-> ms] or [last_updated |-> ms]
updateProduct(map, id, updates, stamp) ==
  IF id \notin DOMAIN map
  THEN [products |-> map, returned |-> NoProduct]
  ELSE LET updatedProduct == Spread(Spread(map[id], updates), stamp)
       IN [products |-> MapSet(map, id, updatedProduct), returned |-> updatedProduct]

\* deleteProduct answering true for every id
deleteProduct_AlwaysTrue(map, id) ==
  [products |-> [k \in DOMAIN map \ {id} |-> map[k]], returned |-> TRUE]

\* lines 128-130 and 272-274: this.products.delete(id)
deleteProduct(map, id) ==
  [products |-> [k \in DOMAIN map \ {id} |-> map[k]], returned |-> id \in DOMAIN map]

\* an identifier no createProduct returns
AbsentId == <<0, 0>>

\* request bodies of POST /api/products: a product, a product carrying an
\* id of its own, and a body without title
NewProducts == {
  [isNull |-> FALSE, title |-> JsStr("Silk Saree"), price |-> JsInt(500)],
  [isNull |-> FALSE, title |-> JsStr("Soap"), price |-> JsNull, id |-> AbsentId],
  [isNull |-> FALSE, title |-> JsStr(""), price |-> JsInt(5)] }

\* request bodies of PUT /api/products/:id: a new price, and a new title with an id
ProductUpdates == {
  [price |-> JsInt(450)],
  [title |-> JsStr("Cotton Saree"), id |-> AbsentId] }

\* the identifiers createProduct has returned so far
Issued ==
  IF result.op = "createProduct" /\ result.status = 201
  THEN result.issued \cup {result.product.id} ELSE result.issued

\* the identifiers a request may name
RequestIds == DOMAIN products \cup Issued \cup {AbsentId}

StoreCall(op, id, body) == [fn |-> "store", op |-> op, id |-> id, body |-> body]

\* what stays of the bookkeeping from one call to the next
StoreReply(op, status, product, deleted) ==
  [fn |-> "store", store |-> result.store, currentProductId |-> result.currentProductId,
   calls |-> result.calls + 1, issued |-> Issued,
   op |-> op, status |-> status, product |-> product, deleted |-> deleted]

InitStore ==
  /\ runs = [r \in 1..MaxReq |-> IdleRun]
  /\ products = <<>>
  /\ now = 0
  /\ openaiKey = FALSE
  /\ arg = NoCall
  /\ \E version \in StoreVersions :
       result = [fn |-> "store", store |-> version, currentProductId |-> 1,
                 calls |-> 0, issued |-> {},
                 op |-> "new", status |-> 0, product |-> NoProduct, deleted |-> FALSE]

\* routes.ts 526-540: POST /api/products
PostProduct(body, rnd) ==
  /\ result.calls < MaxCalls
  /\ arg' = StoreCall("createProduct", AbsentId, body)
  /\ IF ~Truthy(body.title)
     THEN /\ result' = StoreReply("createProduct", 400, NoProduct, FALSE)
          /\ UNCHANGED products
     ELSE LET created == IF result.store = "counter"
                         THEN createProductCounter(body, result.currentProductId, now)
                         ELSE Spread(body, [id |-> ProductId(now, rnd), last_updated |-> now])
          IN /\ products' = MapSet(products, created.id, created)
             /\ result' = [StoreReply("createProduct", 201, created, FALSE)
                             EXCEPT !.currentProductId =
                               IF result.store = "counter" THEN @ + 1 ELSE @]
  /\ UNCHANGED <<runs, now, openaiKey>>

\* routes.ts 483-498: GET /api/products/:id
GetProduct(id) ==
  /\ result.calls < MaxCalls
  /\ arg' = StoreCall("getProduct", id, <<>>)
  /\ LET product == getProduct(products, id)
     IN result' = StoreReply("getProduct", IF product.isNull THEN 404 ELSE 200, product, FALSE)
  /\ UNCHANGED <<runs, products, now, openaiKey>>

\* routes.ts 542-559: PUT /api/products/:id
PutProduct(id, updates) ==
  /\ result.calls < MaxCalls
  /\ arg' = StoreCall("updateProduct", id, updates)
  /\ LET stamp == IF result.store = "counter" THEN [updatedAt |-> now] ELSE [last_updated |-> now]
         updated == updateProduct(products, id, updates, stamp)
     IN /\ products' = updated.products
        /\ result' = StoreReply("updateProduct", IF updated.returned.isNull THEN 404 ELSE 200,
                                updated.returned, FALSE)
  /\ UNCHANGED <<runs, now, openaiKey>>

\* routes.ts 561-576: DELETE /api/products/:id
DeleteProduct(id) ==
  /\ result.calls < MaxCalls
  /\ arg' = StoreCall("deleteProduct", id, <<>>)
  /\ LET deleted == deleteProduct(products, id)
     IN /\ products' = deleted.products
        /\ result' = StoreReply("deleteProduct", IF deleted.returned THEN 200 ELSE 404,
                                NoProduct, deleted.returned)
  /\ UNCHANGED <<runs, now, openaiKey>>

NextStore ==
  \/ \E body \in NewProducts, rnd \in 1..MaxRandom : PostProduct(body, rnd)
  \/ \E id \in RequestIds : GetProduct(id)
  \/ \E id \in RequestIds, updates \in ProductUpdates : PutProduct(id, updates)
  \/ \E id \in RequestIds : DeleteProduct(id)
  \/ Tick

SpecStore == InitStore /\ [][NextStore]_vars

\* C26: every product in the store has an id field equal to the key it is
\* stored under.
C26_IdIsKey == \A k \in DOMAIN products : products[k].id = k

\* C27: a read, update or delete of an id that is not in the store reports
\* not-found (undefined or false, status 404) and leaves the store as it
\* was; a delete of an id that is in the store reports success and leaves
\* the id unreadable.
C27_AbsentIdNotFound ==
  [][ (result'.calls = result.calls + 1
         /\ arg'.op \in {"getProduct", "updateProduct", "deleteProduct"}) =>
        IF arg'.id \in DOMAIN products
        THEN /\ result'.status = 200
             /\ arg'.op = "deleteProduct" =>
                  /\ result'.deleted
                  /\ arg'.id \notin DOMAIN products'
                  /\ getProduct(products', arg'.id).isNull
                  /\ \A k \in DOMAIN products \ {arg'.id} :
                       k \in DOMAIN products' /\ products'[k] = products[k]
        ELSE /\ result'.status = 404
             /\ result'.product.isNull
             /\ ~result'.deleted
             /\ products' = products ]_vars

\* a delete of an id that was created and deleted before reports not-found
C27_Witness ==
  /\ result.fn = "store"
  /\ result.op = "deleteProduct"
  /\ arg.id \in result.issued
  /\ arg.id \notin DOMAIN products
  /\ ~result.deleted
  /\ result.status = 404

\* C28: createProduct returns an identifier that no earlier createProduct
\* has returned, whether or not the earlier product has been deleted since,
\* so that a created product never takes the place of another one.
C28_FreshId ==
  (result.fn = "store" /\ result.op = "createProduct" /\ result.status = 201) =>
    result.product.id \notin result.issued

(***************************************************************************)
(* POST /api/transcribe (routes.ts 60-170, and 639-728 for the version     *)
(* that calls Whisper)                                                     *)
(*                                                                         *)
(* result holds the server: which version of the route it runs, whether    *)
(* the speech-to-text key is set, the stored transcriptions, and the       *)
(* locals, temporary file and response of the request being served; arg    *)
(* is that request.                                                        *)
(***************************************************************************)
MaxUploads == 2

RouteVersions == {"assemblyai", "whisper"}

\* the status property of what a collaborator throws; 0: it has none
ErrorStatuses == {401, 429, 403, 0}

\* what the speech-to-text service returns
SttTranscripts == {
  [text |-> JsStr("pattu selai"), language |-> JsStr("ta")],
  [text |-> JsNull, language |-> JsUndefined] }

\* the language field of the upload form
FormLanguages == {JsUndefined, JsStr("hi")}

NoTranscript == [text |-> JsUndefined, language |-> JsUndefined]

NoThrow == [from |-> "", status |-> 0]

NoReply == [status |-> 0, error |-> "", id |-> 0, text |-> JsUndefined]

\* the status answered by the inner catch block answering 500 for every error
sttErrorStatus_Always500(status) == 500

\* lines 133-147 and 691-705: the status answered by the inner catch block
sttErrorStatus(status) ==
  CASE status = 401 -> 401
    [] status = 429 -> 429
    [] OTHER -> 500

\* lines 149-169 and 708-727: the outer catch block, for an error that is
\* no MulterError; its unlinkSync is wrapped in a try of its own
outerCatch(server, from, status) ==
  [server EXCEPT !.pc = "done",
                 !.file = FALSE,
                 !.thrown = [from |-> from, status |-> status],
                 !.response = [NoReply EXCEPT !.status = 500,
                                 !.error = "Internal server error during transcription"]]

\* lines 124-147 and 687-705: the inner catch block; the Whisper version
\* calls unlinkSync without looking whether the file is still there, and
\* unlinkSync throws, out of the catch block, when it is not
innerCatch(server, from, status) ==
  IF server.version = "whisper" /\ ~server.file
  THEN outerCatch(server, from, 0)
  ELSE [server EXCEPT !.pc = "done",
                      !.file = FALSE,
                      !.thrown = [from |-> from, status |-> status],
                      !.response = [NoReply EXCEPT !.status = sttErrorStatus(status),
                                      !.error = CASE status = 401 -> "Invalid API key"
                                                  [] status = 429 -> "rate limit exceeded"
                                                  [] OTHER -> "Failed to transcribe audio. Please try again."]]

\* part_001 55-67 and 204-216
createTranscription(insertTranscription, currentTranscriptionId, ms) ==
  [id |-> currentTranscriptionId, text |-> insertTranscription.text,
   language |-> insertTranscription.language, createdAt |-> ms]

InitTranscribe ==
  /\ runs = [r \in 1..MaxReq |-> IdleRun]
  /\ products = <<>>
  /\ now = 0
  /\ openaiKey = FALSE
  /\ arg = NoCall
  /\ \E version \in RouteVersions, key \in BOOLEAN :
       result = [fn |-> "transcribe", version |-> version, key |-> key,
                 transcriptions |-> <<>>, currentTranscriptionId |-> 1,
                 served |-> 0, pc |-> "idle", file |-> FALSE, selectedLanguage |-> "",
                 transcript |-> NoTranscript, atStart |-> <<>>, thrown |-> NoThrow,
                 response |-> NoReply]

\* lines 60-90 and 639-654: a request arrives; with a file, multer has
\* written it to a temporary file before the handler runs
ReceiveUpload(hasFile, language) ==
  /\ result.pc \in {"idle", "done"}
  /\ result.served < MaxUploads
  /\ arg' = [fn |-> "transcribe", file |-> hasFile, language |-> language]
  /\ LET server == [result EXCEPT !.served = @ + 1,
                                  !.file = hasFile,
                                  !.selectedLanguage = "",
                                  !.transcript = NoTranscript,
                                  !.atStart = result.transcriptions,
                                  !.thrown = NoThrow,
                                  !.response = NoReply]
     IN result' =
          IF ~hasFile
          THEN [server EXCEPT !.pc = "done",
                              !.response = [NoReply EXCEPT !.status = 400,
                                              !.error = "No audio file provided"]]
          ELSE IF ~server.key
          THEN [server EXCEPT !.pc = "done",
                              !.file = FALSE,
                              !.response = [NoReply EXCEPT !.status = 500,
                                              !.error = "API key not configured"]]
          ELSE IF server.version = "assemblyai"
          THEN [server EXCEPT !.pc = "upload",
                              !.selectedLanguage = OrElse(language, JsStr("ta")).s]
          ELSE [server EXCEPT !.pc = "stt"]
  /\ UNCHANGED <<runs, products, now, openaiKey>>

\* line 94: assemblyai.files.upload returned
UploadReturns ==
  /\ result.pc = "upload"
  /\ result' = [result EXCEPT !.pc = "stt"]
  /\ UNCHANGED <<runs, products, now, openaiKey, arg>>

\* line 94 threw
UploadThrows(status) ==
  /\ result.pc = "upload"
  /\ result' = innerCatch(result, "stt", status)
  /\ UNCHANGED <<runs, products, now, openaiKey, arg>>

\* lines 97-106 and 659-668: the transcript is there, the file is removed
\* and storage.createTranscription is called
SttReturns(transcript) ==
  /\ result.pc = "stt"
  /\ result' = [result EXCEPT !.pc = "store", !.file = FALSE, !.transcript = transcript]
  /\ UNCHANGED <<runs, products, now, openaiKey, arg>>

\* SttThrows with the inner catch block leaving the file where it is
SttThrows_KeepsFile(status) ==
  /\ result.pc = "stt"
  /\ result' = [innerCatch(result, "stt", status) EXCEPT !.file = result.file]
  /\ UNCHANGED <<runs, products, now, openaiKey, arg>>

\* lines 97-103 and 659-665 threw
SttThrows(status) ==
  /\ result.pc = "stt"
  /\ result' = innerCatch(result, "stt", status)
  /\ UNCHANGED <<runs, products, now, openaiKey, arg>>

\* lines 109-122 and 671-684: storage.createTranscription returned
SaveReturns ==
  /\ result.pc = "store"
  /\ LET text == IF result.version = "assemblyai"
                 THEN OrElse(result.transcript.text, JsStr(""))
                 ELSE result.transcript.text
         insertTranscription == [text |-> text,
                                 language |-> OrElse(result.transcript.language, JsStr("unknown"))]
         saved == createTranscription(insertTranscription, result.currentTranscriptionId, now)
     IN result' = [result EXCEPT !.pc = "done",
                                 !.currentTranscriptionId = @ + 1,
                                 !.transcriptions = MapSet(@, saved.id, saved),
                                 !.response = [status |-> 200, error |-> "", id |-> saved.id,
                                               text |-> text]]
  /\ UNCHANGED <<runs, products, now, openaiKey, arg>>

\* lines 109-114 and 671-676 threw
SaveThrows ==
  /\ result.pc = "store"
  /\ result' = innerCatch(result, "store", 0)
  /\ UNCHANGED <<runs, products, now, openaiKey, arg>>

NextTranscribe ==
  \/ \E hasFile \in BOOLEAN, language \in FormLanguages : ReceiveUpload(hasFile, language)
  \/ UploadReturns
  \/ \E status \in ErrorStatuses : UploadThrows(status)
  \/ \E transcript \in SttTranscripts : SttReturns(transcript)
  \/ \E status \in ErrorStatuses : SttThrows(status)
  \/ SaveReturns
  \/ SaveThrows
  \/ Tick

SpecTranscribe == InitTranscribe /\ [][NextTranscribe]_vars

\* the request has been answered
Answered == result.fn = "transcribe" /\ result.pc = "done"

\* C22: when the speech-to-text service fails, the answer is 401 for an
\* error of status 401, 429 for an error of status 429 and 500 for every
\* other error, and no transcription has been stored for the request.
C22_SttFailureKinds ==
  (Answered /\ result.thrown.from = "stt") =>
    /\ result.thrown.status = 401 => result.response.status = 401
    /\ result.thrown.status = 429 => result.response.status = 429
    /\ result.thrown.status \notin {401, 429} => result.response.status = 500
    /\ result.transcriptions = result.atStart

C22_Witness ==
  /\ Answered
  /\ result.thrown = [from |-> "stt", status |-> 429]
  /\ result.response.status = 429
  /\ result.transcriptions # <<>>
  /\ result.transcriptions = result.atStart

\* C25: when a request that carried an upload has been answered, its
\* temporary file is gone.
C25_FileDeleted ==
  (Answered /\ arg.file) => ~result.file

\* the storage write failed after the transcription
C25_Witness ==
  /\ Answered
  /\ arg.file
  /\ result.thrown.from = "store"
  /\ result.response.status = 500
  /\ ~result.file

(***************************************************************************)
(* Two requests to /api/translate in flight together                       *)
(***************************************************************************)
ConcurrentRequests == {1, 2}

\* what the two requests carry and what their collaborators answer
ConcurrentBodies == { b \in Bodies : b.kind = "string" /\ b.text # "" }

ConcurrentFranc == {"hin", "und"}

ConcurrentLlmReplies == { reply \in LlmReplies : reply.kind = "malformed" \/ Truthy(reply.details.title) }

InitConcurrent ==
  /\ runs = [r \in ConcurrentRequests |-> IdleRun]
  /\ products = <<>>
  /\ now = 0
  /\ openaiKey \in BOOLEAN
  /\ arg = NoCall
  /\ result = NoCall

\* the handler of lines 173-309 serving both requests, each step of either
\* request between two awaits being one step
NextConcurrent ==
  \/ \E r \in DOMAIN runs, body \in ConcurrentBodies, detected \in ConcurrentFranc :
       Receive(r, body, detected)
  \/ \E r \in DOMAIN runs, text \in ConcurrentReplies : TranslateReturns(r, text)
  \/ \E r \in DOMAIN runs : TranslateThrows(r)
  \/ \E r \in DOMAIN runs, reply \in ConcurrentLlmReplies : LlmReturns(r, reply)
  \/ \E r \in DOMAIN runs : LlmThrows(r)
  \/ \E r \in DOMAIN runs, rnd \in 1..MaxRandom : StoreReturns(r, rnd)
  \/ \E r \in DOMAIN runs : StoreThrows(r)
  \/ Tick

SpecConcurrent == InitConcurrent /\ [][NextConcurrent]_vars

\* the extraction result of a request served alone whose translator
\* answered reply and whose completion did what llm says
AloneExtraction(reply, llm) ==
  IF llm.kind = "json" /\ ~llm.details.isNull
  THEN [success |-> TRUE, details |-> llm.details]
  ELSE fallbackOf[reply]

\* C21: the detected language, processed text, translated text and
\* extraction result of every response are those of the request served
\* alone with the same answers of franc, the translator and the completion.
C21_NoInterference ==
  \A r \in DOMAIN runs :
    Finished(r) /\ ValidBody(runs[r].transcription) =>
      LET response == runs[r].response
          processed == processedOf[runs[r].transcription.text]
      IN /\ response.detected_language = detectedOf[runs[r].transcription.text, runs[r].franc]
         /\ response.status = 200 =>
              /\ response.processed_text = processed
              /\ response.translated_text = translatedOf[runs[r].reply]
              /\ response.extracted_details = AloneExtraction(runs[r].reply, runs[r].llm)

\* both requests were answered, from different transcripts, translations
\* and extraction strategies
C21_Witness ==
  /\ DOMAIN runs = ConcurrentRequests
  /\ \A r \in DOMAIN runs : Finished(r) /\ runs[r].response.status = 200
  /\ runs[1].transcription.text # runs[2].transcription.text
  /\ runs[1].response.detected_language # runs[2].response.detected_language
  /\ runs[1].response.translated_text # runs[2].response.translated_text
  /\ runs[1].llm.kind = "json"
  /\ runs[2].llm.kind = "threw"
  /\ runs[1].response.extracted_details # runs[2].response.extracted_details

====
